---------------------------- MODULE Spec2Model ----------------------------
(***************************************************************************)
(* A model of the execution core of deepterminal: the Order, Position and  *)
(* Signal records (deepterminal/core/models) and the asynchronous          *)
(* ExecutionEngine (deepterminal/execution/engine.py) with its broker      *)
(* collaborator (deepterminal/exchange/base.py).                           *)
(*                                                                         *)
(* Optional values (Python None / a value) are sequences of length 0 / 1.  *)
(* Coroutines are modelled at await granularity: one step runs a coroutine *)
(* from one suspension point to the next.                                  *)
(***************************************************************************)
EXTENDS Integers, Sequences, FiniteSets, TLC

(***************************************************************************)
(* Bounds of the model.                                                    *)
(***************************************************************************)
\* largest quantity of a position in the Position specification
MaxQty == 3
\* number of operations applied to the position in the Position specification
MaxPosOps == 3
\* number of update_status calls applied to the order in the Order specification
MaxOrderOps == 3
\* method calls applied to the signal in the Signal specification
MaxSignalOps == 3
\* last reading of the clock in the Signal specification
MaxTime == 3
\* bars of the price series in the Backtest specification
MaxBars == 3
\* orders applied to the tracker in the Tracker specification
MaxTrackerOps == 3
\* load_price_data and run calls in the Load specification
MaxLoadOps == 3
\* largest |quantity| and |P&L| of a Position record in the Record specification
MaxRecord == 2
\* public operations called in one run; a call made while another is
\* suspended counts twice
MaxCalls == 4
\* ExecutionEngine(max_concurrent_orders=...): the ceiling the engine is built with
max_concurrent_orders == 1

None == <<>>
Some(x) == <<x>>
IsNone(o) == o = <<>>
Val(o) == o[1]

\* Python truthiness of an Optional[float]: None and 0 are falsy
Truthy(o) == o # <<>> /\ o[1] # 0

(***************************************************************************)
(* Position  (deepterminal/core/models/position.py)                        *)
(***************************************************************************)
\* PositionSide of an OrderSide, as PositionFactory.create_position converts it
PositionSideOf(order_side) == IF order_side = "buy" THEN "long" ELSE "short"

\* Position.calculate_unrealized_pnl
CalculateUnrealizedPnl(p) ==
    IF p.side = "long"
    THEN [p EXCEPT !.unrealized_pnl = (p.current_price - p.entry_price) * p.quantity]
    ELSE [p EXCEPT !.unrealized_pnl = (p.entry_price - p.current_price) * p.quantity]

\* Position.update_price
UpdatePrice(p, current_price) ==
    CalculateUnrealizedPnl([p EXCEPT !.current_price = current_price])

\* PositionFactory.create_position.  entry_price and current_price are
\* Optional; the Position model requires floats, so a None entry price makes
\* the constructor raise (pydantic validation error).
CreatePosition(id, order_side, quantity, entry_price, current_price, entry_order_ids) ==
    LET cur == IF IsNone(current_price) THEN entry_price ELSE current_price
    IN  IF IsNone(entry_price) \/ IsNone(cur)
        THEN [raised |-> TRUE, pos |-> None]
        ELSE [raised |-> FALSE,
              pos |-> Some(CalculateUnrealizedPnl(
                        [id |-> id,
                         side |-> PositionSideOf(order_side),
                         quantity |-> quantity,
                         entry_price |-> Val(entry_price),
                         current_price |-> Val(cur),
                         unrealized_pnl |-> 0,
                         realized_pnl |-> 0,
                         status |-> "open",
                         close_time |-> None,
                         entry_order_ids |-> entry_order_ids,
                         exit_order_ids |-> <<>>,
                         stop_order_ids |-> <<>>]))]

\* the guard of Position.close that rejects closing more than the position holds
CloseTooMuchMutant(quantity_to_close, held) == FALSE
CloseTooMuch(quantity_to_close, held) == quantity_to_close > held

\* the profit or loss Position.close realizes on the closed portion
ClosePnlMutant(p, exit_price, quantity_to_close) ==
    (exit_price - p.entry_price) * quantity_to_close
ClosePnl(p, exit_price, quantity_to_close) ==
    IF p.side = "long"
    THEN (exit_price - p.entry_price) * quantity_to_close
    ELSE (p.entry_price - exit_price) * quantity_to_close

\* Position.close(exit_price, quantity).  exit_price and quantity are Optional.
\* raised is "none", "ValueError" (closing more than held) or "TypeError"
\* (arithmetic on a None exit price).
PositionClose(p, exit_price, quantity) ==
    LET quantity_to_close == IF IsNone(quantity) THEN p.quantity ELSE Val(quantity)
    IN  IF CloseTooMuch(quantity_to_close, p.quantity)
        THEN [raised |-> "ValueError", pos |-> p, pnl |-> 0]
        ELSE IF IsNone(exit_price)
        THEN [raised |-> "TypeError", pos |-> p, pnl |-> 0]
        ELSE
          LET pnl == ClosePnl(p, Val(exit_price), quantity_to_close)
              q   == p.quantity - quantity_to_close
          IN  [raised |-> "none",
               pnl |-> pnl,
               pos |-> [p EXCEPT !.realized_pnl = p.realized_pnl + pnl,
                                 !.quantity = q,
                                 !.status = IF q <= 0 THEN "closed" ELSE "partially_closed",
                                 !.close_time = IF q <= 0 THEN Some("utcnow") ELSE p.close_time]]

\* Position.is_open
IsOpen(p) == p.status # "closed"

(***************************************************************************)
(* Order  (deepterminal/core/models/order.py)                              *)
(***************************************************************************)
\* the statuses Order.is_active lists as inactive
InactiveStatusesMutant == {"filled", "cancelled", "rejected", "expired"}
InactiveStatuses == {"filled", "cancelled", "rejected", "expired", "error"}

\* Order.is_active
OrderIsActive(o) == o.status \notin InactiveStatuses

\* the average fill price after a fill of filled_qty at fill_price, as
\* Order.update_status recomputes it from the average `a` of the
\* previous_filled units filled before; `filled` is the new filled quantity.
\* Averages are exact fractions [num, den].
WeightedMeanMutant(a, previous_filled, filled_qty, fill_price, filled) ==
    [num |-> a.num + fill_price * a.den, den |-> 2 * a.den]
WeightedMean(a, previous_filled, filled_qty, fill_price, filled) ==
    [num |-> previous_filled * a.num + filled_qty * fill_price * a.den,
     den |-> a.den * filled]

\* the status Order.update_status derives from a positive fill
FillStatusMutant(filled, quantity, new_status) ==
    IF filled > quantity THEN "filled"
    ELSE IF filled > 0 THEN "partially_filled"
    ELSE new_status
FillStatus(filled, quantity, new_status) ==
    IF filled >= quantity THEN "filled"
    ELSE IF filled > 0 THEN "partially_filled"
    ELSE new_status

\* Order.update_status(new_status, filled_qty, fill_price); filled_qty and
\* fill_price are Optional.  The average fill price is kept as an exact
\* fraction [num, den].
UpdateStatus(o, new_status, filled_qty, fill_price) ==
    LET o1 == [o EXCEPT !.status = new_status]
    IN  IF IsNone(filled_qty) \/ Val(filled_qty) <= 0
        THEN o1
        ELSE
          LET previous_filled == o.filled_quantity
              filled == o.filled_quantity + Val(filled_qty)
              avg == IF IsNone(fill_price) THEN o.average_fill_price
                     ELSE IF IsNone(o.average_fill_price)
                          THEN Some([num |-> Val(fill_price), den |-> 1])
                          ELSE Some(WeightedMean(Val(o.average_fill_price), previous_filled,
                                                 Val(filled_qty), Val(fill_price), filled))
              rem == IF o.quantity - filled > 0 THEN o.quantity - filled ELSE 0
          IN  [o1 EXCEPT !.filled_quantity = filled,
                         !.average_fill_price = avg,
                         !.remaining_quantity = Some(rem),
                         !.status = FillStatus(filled, o.quantity, new_status)]

\* OrderFactory.create_market_order / create_limit_order / create_stop_order:
\* a new Order in status CREATED with no fill and no stop-loss or take-profit
\* price (the engine passes none of them to the factory).
NewOrder(order_type, side, quantity, price, stop_price) ==
    [order_type |-> order_type,
     side |-> side,
     quantity |-> quantity,
     price |-> price,
     stop_price |-> stop_price,
     status |-> "created",
     filled_quantity |-> 0,
     average_fill_price |-> None,
     remaining_quantity |-> None,
     stop_loss_price |-> None,
     take_profit_price |-> None]

(***************************************************************************)
(* Risk calculator  (deepterminal/risk/calculator.py)                      *)
(***************************************************************************)
\* Instrument.lot_size and Instrument.contract_size (their defaults)
lot_size == 1
contract_size == 1
\* the engine sizes every entry at 1% risk: risk_percentage = 1 / RiskPctDen
RiskPctDen == 100
\* RiskCalculator.max_risk_percentage = MaxRiskPctNum / RiskPctDen
MaxRiskPctNum == 5

Abs(x) == IF x < 0 THEN 0 - x ELSE x
Min(a, b) == IF a < b THEN a ELSE b

\* Python round() of the fraction n / d (n >= 0, d > 0): half to even
RoundHalfEven(n, d) ==
    LET q == n \div d
        r == n % d
    IN  IF 2 * r < d THEN q
        ELSE IF 2 * r > d THEN q + 1
        ELSE IF q % 2 = 0 THEN q ELSE q + 1

\* RiskCalculator.default_risk_percentage = DefaultRiskPctNum / RiskPctDen
DefaultRiskPctNum == 1
\* RiskCalculator.min_risk_reward_ratio = MinRiskRewardNum / MinRiskRewardDen
MinRiskRewardNum == 3
MinRiskRewardDen == 2

\* the risk percentage calculate_position_size uses, in units of 1 / RiskPctDen;
\* risk_percentage is None or Some(units)
EffectiveRiskPctMutant(risk_percentage) ==
    IF risk_percentage = <<>> THEN DefaultRiskPctNum ELSE risk_percentage[1]
EffectiveRiskPct(risk_percentage) ==
    Min(IF risk_percentage = <<>> THEN DefaultRiskPctNum ELSE risk_percentage[1],
        MaxRiskPctNum)

\* whether a take_profit shrinks the risk amount: reward / per_unit_risk is
\* below min_risk_reward_ratio
BelowMinRiskReward(entry_price, per_unit_risk, take_profit) ==
    /\ take_profit # <<>>
    /\ MinRiskRewardDen * Abs(take_profit[1] - entry_price)
       < MinRiskRewardNum * per_unit_risk

\* risk_amount as the fraction num / den, after the risk/reward adjustment
RiskAmount(account_balance, entry_price, per_unit_risk, risk_percentage, take_profit) ==
    LET amount == account_balance * EffectiveRiskPct(risk_percentage)
    IN  IF BelowMinRiskReward(entry_price, per_unit_risk, take_profit)
        THEN [num |-> amount * MinRiskRewardDen * Abs(take_profit[1] - entry_price),
              den |-> RiskPctDen * MinRiskRewardNum * per_unit_risk]
        ELSE [num |-> amount, den |-> RiskPctDen]

\* what calculate_position_size returns when the per-unit risk is not positive
InvalidRiskSizeMutant(lot) == lot
InvalidRiskSize(lot) == 0

\* RiskCalculator.calculate_position_size for an instrument of lot size lot and
\* contract size contract; risk_percentage and take_profit are optional
PositionSize(account_balance, entry_price, stop_loss, lot, contract, risk_percentage, take_profit) ==
    LET per_unit_risk == Abs(entry_price - stop_loss)
    IN  IF per_unit_risk <= 0 THEN InvalidRiskSize(lot)
        ELSE
          LET risk_amount == RiskAmount(account_balance, entry_price, per_unit_risk,
                                        risk_percentage, take_profit)
              lots == RoundHalfEven(risk_amount.num,
                                    risk_amount.den * per_unit_risk * contract * lot)
              position_size == lots * lot
          IN  IF position_size < lot THEN lot ELSE position_size

\* the call the engine makes: risk_percentage = pct_num / RiskPctDen, no
\* take_profit, an instrument with the default lot and contract size
CalculatePositionSize(account_balance, entry_price, stop_loss, pct_num) ==
    PositionSize(account_balance, entry_price, stop_loss, lot_size, contract_size,
                 <<pct_num>>, <<>>)

(***************************************************************************)
(* Signals  (deepterminal/core/models/signal.py)                           *)
(*                                                                         *)
(* The Signal objects the strategies hand to the engine.  Objects 1 and 2  *)
(* carry the same id.  expires says whether the signal has an expiration.  *)
(***************************************************************************)
SignalTable ==
    << [id |-> "a", instrument |-> "X", signal_type |-> "entry", side |-> "buy", entry_price |-> None,
        stop_loss |-> Some(98), position_id |-> None, expires |-> TRUE],
       [id |-> "a", instrument |-> "X", signal_type |-> "entry", side |-> "sell", entry_price |-> Some(100),
        stop_loss |-> Some(102), position_id |-> None, expires |-> FALSE],
       [id |-> "b", instrument |-> "X", signal_type |-> "entry", side |-> "buy", entry_price |-> None,
        stop_loss |-> None, position_id |-> None, expires |-> FALSE],
       [id |-> "c", instrument |-> "X", signal_type |-> "entry", side |-> "buy", entry_price |-> Some(100),
        stop_loss |-> Some(100), position_id |-> None, expires |-> FALSE],
       [id |-> "d", instrument |-> "X", signal_type |-> "exit", side |-> "sell", entry_price |-> None,
        stop_loss |-> None, position_id |-> Some(<<"P", 1>>), expires |-> FALSE],
       [id |-> "e", instrument |-> "Y", signal_type |-> "exit", side |-> "sell", entry_price |-> Some(105),
        stop_loss |-> None, position_id |-> Some(<<"P", 2>>), expires |-> FALSE],
       [id |-> "f", instrument |-> "X", signal_type |-> "exit", side |-> "sell", entry_price |-> None,
        stop_loss |-> None, position_id |-> None, expires |-> FALSE],
       [id |-> "g", instrument |-> "X", signal_type |-> "alert", side |-> "buy", entry_price |-> None,
        stop_loss |-> None, position_id |-> None, expires |-> FALSE] >>

SignalObjs == DOMAIN SignalTable

(***************************************************************************)
(* The broker collaborator  (deepterminal/exchange/base.py): what its      *)
(* calls may answer.                                                       *)
(***************************************************************************)
\* get_account_info: raises, an empty answer, or a balance
AccountOutcomes == {"raise", "empty", "balance"}
AccountBalance == [balance |-> 400]
\* get_market_data: raises, an answer with no price, or the last price
MarketOutcomes == {"raise", "no_price", "price"}
MarketData == [last_price |-> 100]
\* connect, disconnect, place_order, cancel_order: raises, false, true
CallOutcomes == {"raise", "fail", "ok"}
\* get_position(instrument): raises, None, or the Position the account holds
\* in the instrument: 2 units long of "X", 1 unit short of "Y"
PositionOutcomes == {"raise", "none", "position"}
BrokerPosition(instrument, n) ==
    [id |-> <<instrument, n>>,
     side |-> IF instrument = "X" THEN "long" ELSE "short",
     quantity |-> IF instrument = "X" THEN 2 ELSE 1,
     entry_price |-> 100,
     current_price |-> 100,
     unrealized_pnl |-> 0,
     realized_pnl |-> 0,
     status |-> "open",
     close_time |-> None,
     entry_order_ids |-> <<>>,
     exit_order_ids |-> <<>>,
     stop_order_ids |-> <<>>]
\* get_order_status: raises, None, or the status the broker holds
StatusOutcomes == {"raise", "none", "status"}
\* how an order moves at the broker: only an order of more than one unit
\* fills in parts
BrokerMoves(o) ==
    CASE o.status = "accepted" ->
           {"filled", "cancelled"} \cup (IF o.quantity > 1 THEN {"partially_filled"} ELSE {})
      [] o.status = "partially_filled" -> {"filled"}
      [] OTHER -> {}

VARIABLES
    running,            \* ExecutionEngine.running
    order_status_task,  \* ExecutionEngine.order_status_task: Optional task id
    active_orders,      \* keys of ExecutionEngine.active_orders (order ids)
    orders,             \* the Order objects, by order id
    active_positions,   \* ExecutionEngine.active_positions: sequence of [key, ref]
    heap,               \* the Position objects, by reference
    signal_order_map,   \* ExecutionEngine.signal_order_map: signal id -> order ids
    processed_signals,  \* ExecutionEngine.processed_signals
    stats,              \* total_orders, successful_orders, failed_orders, total_positions
    sig_status,         \* Signal.status of every Signal object
    tasks,              \* the reconciliation tasks created by start()
    calls,              \* the coroutines running public operations
    ncalls,             \* public operations called so far
    exchange_orders,    \* the orders the broker accepted, by exchange order id
    pos,                \* the Position of the Position specification
    pos_call,           \* the last operation applied to pos and its outcome
    pos_ops,            \* operations applied to pos so far
    ord,                \* the Order of the Order specification
    ord_call,           \* the last update_status call applied to ord
    ord_sum,            \* the fills reported to ord so far, summed
    ord_ops,            \* update_status calls applied to ord so far
    sgn,                \* the Signal of the Signal specification, the clock and the last call
    risk,               \* the arguments and the result of a calculate_position_size call
    bt,                 \* the state of a BacktestEngine.run() and its results
    trk,                \* the MockPositionTracker of the Tracker specification and its last order
    ld,                 \* the instruments, price data and last call of a BacktestEngine being loaded
    rec,                \* a Position record of src/models/position.py and its properties as read
    live                \* the live PositionTracker and its threads

engine_vars == <<running, order_status_task, active_orders, orders, active_positions,
                 heap, signal_order_map, processed_signals, stats, sig_status, tasks,
                 calls, ncalls, exchange_orders>>
pos_vars == <<pos, pos_call, pos_ops>>
ord_vars == <<ord, ord_call, ord_sum, ord_ops>>
\* the variables of the specifications of single objects
lib_vars == <<pos_vars, ord_vars, sgn, risk, bt, trk, ld, rec, live>>
\* all variables but those of the Position / of the Order specification
outside_pos == <<engine_vars, ord_vars, sgn, risk, bt, trk, ld, rec, live>>
outside_ord == <<engine_vars, pos_vars, sgn, risk, bt, trk, ld, rec, live>>
outside_sgn == <<engine_vars, pos_vars, ord_vars, risk, bt, trk, ld, rec, live>>
outside_risk == <<engine_vars, pos_vars, ord_vars, sgn, bt, trk, ld, rec, live>>
outside_bt == <<engine_vars, pos_vars, ord_vars, sgn, risk, trk, ld, rec, live>>
outside_trk == <<engine_vars, pos_vars, ord_vars, sgn, risk, bt, ld, rec, live>>
outside_ld == <<engine_vars, pos_vars, ord_vars, sgn, risk, bt, trk, rec, live>>
outside_rec == <<engine_vars, pos_vars, ord_vars, sgn, risk, bt, trk, ld, live>>
outside_live == <<engine_vars, pos_vars, ord_vars, sgn, risk, bt, trk, ld, rec>>
vars == <<running, order_status_task, active_orders, orders, active_positions,
          heap, signal_order_map, processed_signals, stats, sig_status, tasks,
          calls, ncalls, exchange_orders, pos, pos_call, pos_ops,
          ord, ord_call, ord_sum, ord_ops, sgn, risk, bt, trk, ld, rec, live>>

\* the coroutines that call the engine's public operations: at most two
\* operations are in flight at once
Callers == {1, 2}

\* a coroutine slot with no call in it
IdleCall ==
    [op |-> "none", pc |-> "idle", sig |-> 0, result |-> "none",
     balance |-> 0, order |-> None, posref |-> 0, fetched |-> FALSE,
     task |-> 0, todo |-> <<>>]

\* the call has returned (result "true" / "false") or raised (result "raised");
\* its locals are gone, its argument is kept
Done(call, result) ==
    [IdleCall EXCEPT !.op = call.op, !.pc = "done", !.result = result, !.sig = call.sig]

InFlight(c) == calls[c].pc \notin {"idle", "done"}

\* slot c takes a new call: the lowest slot that holds no running call
CanBegin(c) ==
    /\ ~InFlight(c)
    /\ \A d \in Callers : d < c => InFlight(d)

\* the bookkeeping of the bounds when a slot takes a call: a call made while
\* another is suspended counts twice in MaxCalls
Overlapping == \E d \in Callers : InFlight(d)
Begin ==
    /\ ncalls + (IF Overlapping THEN 2 ELSE 1) <= MaxCalls
    /\ ncalls' = ncalls + (IF Overlapping THEN 2 ELSE 1)

\* the call suspends in the broker call named pc
Await(call, pc) == [call EXCEPT !.pc = pc]

\* slot c takes the call in state `call`; the outcomes of the calls that had
\* returned are no longer held
Take(c, call) ==
    [d \in Callers |-> IF d = c THEN call
                       ELSE IF InFlight(d) THEN calls[d] ELSE IdleCall]

\* dict operations on active_positions (insertion ordered)
PosLookup(ap, key) ==
    IF \E i \in DOMAIN ap : ap[i].key = key
    THEN Some((CHOOSE i \in DOMAIN ap : ap[i].key = key))
    ELSE None
PosRef(ap, key) == ap[Val(PosLookup(ap, key))].ref
PosAssign(ap, key, ref) ==
    IF IsNone(PosLookup(ap, key))
    THEN Append(ap, [key |-> key, ref |-> ref])
    ELSE [ap EXCEPT ![Val(PosLookup(ap, key))].ref = ref]
PosDelete(ap, key) == SelectSeq(ap, LAMBDA e : e.key # key)

\* the ids of a set of order ids in dict (insertion) order
RECURSIVE SortedIds(_)
SortedIds(S) ==
    IF S = {} THEN <<>>
    ELSE LET m == CHOOSE x \in S : \A y \in S : x <= y
         IN  <<m>> \o SortedIds(S \ {m})

EngineInit ==
    /\ running = FALSE
    /\ order_status_task = None
    /\ active_orders = {}
    /\ orders = <<>>
    /\ active_positions = <<>>
    /\ heap = <<>>
    /\ signal_order_map = [i \in {} |-> <<>>]
    /\ processed_signals = {}
    /\ stats = [total_orders |-> 0, successful_orders |-> 0, failed_orders |-> 0,
                total_positions |-> 0]
    /\ sig_status = [s \in SignalObjs |-> "active"]
    /\ tasks = <<>>
    /\ calls = [c \in Callers |-> IdleCall]
    /\ ncalls = 0
    /\ exchange_orders = <<>>

(***************************************************************************)
(* ExecutionEngine.process_signal  (engine.py 127-174)                     *)
(***************************************************************************)
\* Signal.is_active on object s; expired says whether its expiration has passed
SignalIsActive(s, expired) == sig_status[s] = "active" /\ ~expired

\* whether the expiration of Signal object s may have passed
ExpiryChoices(s) == IF SignalTable[s].expires THEN BOOLEAN ELSE {FALSE}

\* signal.id in self.processed_signals
AlreadyProcessedMutant(id) == FALSE
AlreadyProcessed(id) == id \in processed_signals

\* len(self.active_orders) >= self.max_concurrent_orders
AtCeilingMutant == Cardinality(active_orders) > max_concurrent_orders
AtCeiling == Cardinality(active_orders) >= max_concurrent_orders

\* the check that makes process_signal reject the signal, "" if none does
RejectReason(s, expired) ==
    IF ~running THEN "not_running"
    ELSE IF ~SignalIsActive(s, expired) THEN "inactive"
    ELSE IF AlreadyProcessed(SignalTable[s].id) THEN "processed"
    ELSE IF AtCeiling THEN "ceiling"
    ELSE ""

\* the exit order of _process_exit_signal / the close order of
\* emergency_close_all_positions for Position p: opposite side, p's quantity
ExitOrder(p, price) ==
    NewOrder(IF Truthy(price) THEN "limit" ELSE "market",
             IF p.side = "long" THEN "sell" ELSE "buy",
             p.quantity,
             IF Truthy(price) THEN price ELSE None,
             None)

\* _process_entry_signal from the resolved entry price to the await of
\* place_order (engine.py 198-249)
EntryPrepare(call, entry_price) ==
    LET sg == SignalTable[call.sig]
    IN  IF IsNone(entry_price) THEN Done(call, "false")
        ELSE IF IsNone(sg.stop_loss) THEN Done(call, "false")
        ELSE
          LET size == CalculatePositionSize(call.balance, Val(entry_price),
                                            Val(sg.stop_loss), 1)
              lots == RoundHalfEven(size, lot_size) * lot_size
              position_size == IF lots < lot_size THEN lot_size ELSE lots
          IN  IF size <= 0 THEN Done(call, "false")
              ELSE Await([call EXCEPT !.order =
                            Some(NewOrder(IF Truthy(sg.entry_price) THEN "limit" ELSE "market",
                                          sg.side, position_size,
                                          IF Truthy(sg.entry_price) THEN sg.entry_price ELSE None,
                                          None))],
                         "entry_place_order")

\* process_signal from its call to its first await or its return:
\* the four rejections, then the dispatch on signal_type and the start of
\* _process_entry_signal (engine.py 186-187) or _process_exit_signal
\* (engine.py 292-334)
SignalDispatch(call) ==
    LET sg == SignalTable[call.sig]
    IN  CASE sg.signal_type = "entry" -> Await(call, "get_account_info")
          [] sg.signal_type = "exit" ->
               IF IsNone(sg.position_id) THEN Done(call, "false")
               ELSE IF IsNone(PosLookup(active_positions, Val(sg.position_id)))
               THEN Await(call, "get_position")
               ELSE LET ref == PosRef(active_positions, Val(sg.position_id))
                    IN  Await([call EXCEPT !.posref = ref,
                                           !.order = Some(ExitOrder(heap[ref], sg.entry_price))],
                              "exit_place_order")
          [] OTHER -> Done(call, "false")

\* rejected_stats: the statistics counters a rejection leaves
ProcessSignalGate(c, s, rejected_stats) ==
    /\ CanBegin(c)
    /\ \E expired \in ExpiryChoices(s) :
         LET call == [IdleCall EXCEPT !.op = "process_signal", !.sig = s]
             reason == RejectReason(s, expired)
         IN  /\ sig_status' = IF running /\ sig_status[s] = "active" /\ expired
                              THEN [sig_status EXCEPT ![s] = "expired"]
                              ELSE sig_status
             /\ calls' = Take(c, IF reason # "" THEN Done(call, "false")
                                     ELSE SignalDispatch(call))
             /\ stats' = IF reason # "" THEN rejected_stats ELSE stats
    /\ UNCHANGED <<running, order_status_task, active_orders, orders, active_positions,
                   heap, signal_order_map, processed_signals, tasks, exchange_orders>>
    /\ Begin
    /\ UNCHANGED lib_vars

ProcessSignalBeginMutant(c, s) ==
    ProcessSignalGate(c, s, [stats EXCEPT !.failed_orders = @ + 1])
ProcessSignalBegin(c, s) == ProcessSignalGate(c, s, stats)

\* the counters after a successful placement (engine.py 271-272, 359-360,
\* 572-573, 623-624, 707-708)
CountPlacedMutant(s) == [s EXCEPT !.total_orders = @ + 1]
CountPlaced(s) == [s EXCEPT !.total_orders = @ + 1, !.successful_orders = @ + 1]

\* the engine state a successful place_order of a signal's order leaves
\* (engine.py 256-272 / 341-360, then 171-172)
\* oid is the new order's id, origin the signal id
PlaceSucceeded(c, oid) ==
    LET call == calls[c]
        sg == SignalTable[call.sig]
        order == Val(call.order)
    IN  /\ orders' = Append(orders, order)
        /\ active_orders' = active_orders \cup {oid}
        /\ exchange_orders' = Append(exchange_orders,
                                     [status |-> "accepted", origin |-> sg.id,
                                      side |-> order.side, quantity |-> order.quantity,
                                      order_type |-> order.order_type])
        /\ signal_order_map' =
             IF sg.id \in DOMAIN signal_order_map
             THEN [signal_order_map EXCEPT ![sg.id] = Append(@, oid)]
             ELSE [i \in DOMAIN signal_order_map \cup {sg.id} |->
                     IF i = sg.id THEN <<oid>> ELSE signal_order_map[i]]
        /\ sig_status' = [sig_status EXCEPT ![call.sig] = "executed"]
        /\ stats' = CountPlaced(stats)
        /\ processed_signals' = processed_signals \cup {sg.id}
        /\ calls' = [calls EXCEPT ![c] = Done(call, "true")]

\* the answer of get_account_info arrives (engine.py 187-195)
EntryAccountInfo(c) ==
    /\ calls[c].pc = "get_account_info"
    /\ \E out \in AccountOutcomes :
         LET call == calls[c]
             sg == SignalTable[call.sig]
             withBalance == [call EXCEPT !.balance = AccountBalance.balance]
         IN  calls' = [calls EXCEPT ![c] =
               CASE out = "raise" -> Done(call, "raised")
                 [] out = "empty" -> Done(call, "false")
                 [] OTHER -> IF Truthy(sg.entry_price)
                             THEN EntryPrepare(withBalance, sg.entry_price)
                             ELSE Await(withBalance, "get_market_data")]
    /\ UNCHANGED <<running, order_status_task, active_orders, orders, active_positions,
                   heap, signal_order_map, processed_signals, stats, sig_status, tasks,
                   exchange_orders>>
    /\ UNCHANGED ncalls
    /\ UNCHANGED lib_vars

\* the answer of get_market_data arrives in _get_current_price, which turns an
\* exception into None (engine.py 725-731, then 198-249)
EntryMarketData(c) ==
    /\ calls[c].pc = "get_market_data"
    /\ \E out \in MarketOutcomes :
         calls' = [calls EXCEPT ![c] =
                     EntryPrepare(calls[c], IF out = "price"
                                            THEN Some(MarketData.last_price) ELSE None)]
    /\ UNCHANGED <<running, order_status_task, active_orders, orders, active_positions,
                   heap, signal_order_map, processed_signals, stats, sig_status, tasks,
                   exchange_orders>>
    /\ UNCHANGED ncalls
    /\ UNCHANGED lib_vars

\* the answer of place_order arrives in _process_entry_signal (engine.py 249-280)
EntryPlaceOrder(c) ==
    /\ calls[c].pc = "entry_place_order"
    /\ \E out \in CallOutcomes :
         CASE out = "ok" ->
                /\ PlaceSucceeded(c, Len(exchange_orders) + 1)
                /\ UNCHANGED <<active_positions, heap>>
           [] out = "fail" ->
                /\ stats' = [stats EXCEPT !.failed_orders = @ + 1]
                /\ calls' = [calls EXCEPT ![c] = Done(calls[c], "false")]
                /\ UNCHANGED <<active_orders, orders, active_positions, heap,
                               signal_order_map, processed_signals, sig_status,
                               exchange_orders>>
           [] OTHER ->
                /\ calls' = [calls EXCEPT ![c] = Done(calls[c], "raised")]
                /\ UNCHANGED <<active_orders, orders, active_positions, heap,
                               signal_order_map, processed_signals, stats, sig_status,
                               exchange_orders>>
    /\ UNCHANGED <<running, order_status_task, tasks>>
    /\ UNCHANGED ncalls
    /\ UNCHANGED lib_vars

\* the answer of get_position arrives in _process_exit_signal (engine.py 303-334)
ExitGetPosition(c) ==
    /\ calls[c].pc = "get_position"
    /\ \E out \in PositionOutcomes :
         LET call == calls[c]
             sg == SignalTable[call.sig]
             ref == Len(heap) + 1
             position == BrokerPosition(sg.instrument, ref)
         IN  CASE out = "raise" ->
                    /\ calls' = [calls EXCEPT ![c] = Done(call, "raised")]
                    /\ UNCHANGED <<active_positions, heap>>
               [] out = "none" ->
                    /\ calls' = [calls EXCEPT ![c] = Done(call, "false")]
                    /\ UNCHANGED <<active_positions, heap>>
               [] OTHER ->
                    /\ heap' = Append(heap, position)
                    /\ active_positions' = PosAssign(active_positions, Val(sg.position_id), ref)
                    /\ calls' = [calls EXCEPT ![c] =
                                   Await([call EXCEPT !.posref = ref, !.fetched = TRUE,
                                            !.order = Some(ExitOrder(position, sg.entry_price))],
                                         "exit_place_order")]
    /\ UNCHANGED <<running, order_status_task, active_orders, orders, signal_order_map,
                   processed_signals, stats, sig_status, tasks, exchange_orders>>
    /\ UNCHANGED ncalls
    /\ UNCHANGED lib_vars

\* the answer of place_order arrives in _process_exit_signal (engine.py 334-369)
ExitPlaceOrder(c) ==
    /\ calls[c].pc = "exit_place_order"
    /\ \E out \in CallOutcomes :
         CASE out = "ok" ->
                /\ PlaceSucceeded(c, Len(exchange_orders) + 1)
                /\ heap' = [heap EXCEPT ![calls[c].posref].exit_order_ids =
                                          Append(@, Len(exchange_orders) + 1)]
                /\ UNCHANGED active_positions
           [] out = "fail" ->
                /\ stats' = [stats EXCEPT !.failed_orders = @ + 1]
                /\ calls' = [calls EXCEPT ![c] = Done(calls[c], "false")]
                /\ UNCHANGED <<active_orders, orders, active_positions, heap,
                               signal_order_map, processed_signals, sig_status,
                               exchange_orders>>
           [] OTHER ->
                /\ calls' = [calls EXCEPT ![c] = Done(calls[c], "raised")]
                /\ UNCHANGED <<active_orders, orders, active_positions, heap,
                               signal_order_map, processed_signals, stats, sig_status,
                               exchange_orders>>
    /\ UNCHANGED <<running, order_status_task, tasks>>
    /\ UNCHANGED ncalls
    /\ UNCHANGED lib_vars

(***************************************************************************)
(* ExecutionEngine.start / stop  (engine.py 65-125)                        *)
(***************************************************************************)
\* a reconciliation task as asyncio.create_task leaves it, which is also how
\* it waits between two passes: about to take the snapshot of active_orders.
\* last_pass says how its last pass ended: "none" before the first pass and
\* during one, "completed" at the end of the for loop, "raised" in
\* `except Exception`
NewTask ==
    [pc |-> "sleep", must_cancel |-> FALSE, cur |-> 0, rest |-> <<>>, posref |-> 0,
     order |-> None, cancel_ids |-> <<>>, last_pass |-> "none"]

\* the task has ended (it left its loop or was cancelled)
TaskDone(tid) == tasks[tid].pc = "done"

\* Task.cancel(): a task that has not ended is asked to raise CancelledError
\* at the await it is suspended in
CancelTask(ts, tid) ==
    IF ts[tid].pc = "done" THEN ts ELSE [ts EXCEPT ![tid].must_cancel = TRUE]

\* `if self.running: return True` of start()
AlreadyRunningMutant == FALSE
AlreadyRunning == running

\* start() from its call to the await of connect (engine.py 72-76)
StartBegin(c) ==
    /\ CanBegin(c)
    /\ calls' = Take(c, LET call == [IdleCall EXCEPT !.op = "start"]
                        IN  IF AlreadyRunning THEN Done(call, "true")
                            ELSE Await(call, "connect"))
    /\ UNCHANGED <<running, order_status_task, active_orders, orders, active_positions,
                   heap, signal_order_map, processed_signals, stats, sig_status, tasks,
                   exchange_orders>>
    /\ Begin
    /\ UNCHANGED lib_vars

\* the answer of connect arrives (engine.py 76-93)
StartConnect(c) ==
    /\ calls[c].pc = "connect"
    /\ \E out \in CallOutcomes :
         CASE out = "ok" ->
                /\ tasks' = Append(tasks, NewTask)
                /\ order_status_task' = Some(Len(tasks) + 1)
                /\ running' = TRUE
                /\ calls' = [calls EXCEPT ![c] = Done(calls[c], "true")]
           [] out = "fail" ->
                /\ calls' = [calls EXCEPT ![c] = Done(calls[c], "false")]
                /\ UNCHANGED <<running, order_status_task, tasks>>
           [] OTHER ->
                /\ calls' = [calls EXCEPT ![c] = Done(calls[c], "raised")]
                /\ UNCHANGED <<running, order_status_task, tasks>>
    /\ UNCHANGED <<active_orders, orders, active_positions, heap, signal_order_map,
                   processed_signals, stats, sig_status, exchange_orders>>
    /\ UNCHANGED ncalls
    /\ UNCHANGED lib_vars

\* stop() from its call to the await of the cancelled task (engine.py 102-109)
StopBegin(c) ==
    /\ CanBegin(c)
    /\ LET call == [IdleCall EXCEPT !.op = "stop"]
       IN  IF ~running
           THEN /\ calls' = Take(c, Done(call, "true"))
                /\ UNCHANGED tasks
           ELSE IF IsNone(order_status_task)
           THEN /\ calls' = Take(c, Await(call, "disconnect"))
                /\ UNCHANGED tasks
           ELSE /\ calls' = Take(c, [call EXCEPT !.pc = "join",
                                                !.task = Val(order_status_task)])
                /\ tasks' = CancelTask(tasks, Val(order_status_task))
    /\ UNCHANGED <<running, order_status_task, active_orders, orders, active_positions,
                   heap, signal_order_map, processed_signals, stats, sig_status,
                   exchange_orders>>
    /\ Begin
    /\ UNCHANGED lib_vars

\* `await self.order_status_task` resumes once that task has ended
JoinReadyMutant(c) == TRUE
JoinReady(c) == TaskDone(calls[c].task)

\* stop() from the end of the awaited task to the await of disconnect
\* (engine.py 109-114)
StopJoin(c) ==
    /\ calls[c].pc = "join"
    /\ JoinReady(c)
    /\ calls' = [calls EXCEPT ![c] = Await(calls[c], "disconnect")]
    /\ UNCHANGED <<running, order_status_task, active_orders, orders, active_positions,
                   heap, signal_order_map, processed_signals, stats, sig_status, tasks,
                   exchange_orders>>
    /\ UNCHANGED ncalls
    /\ UNCHANGED lib_vars

\* the answer of disconnect arrives (engine.py 114-125)
StopDisconnect(c) ==
    /\ calls[c].pc = "disconnect"
    /\ \E out \in CallOutcomes :
         CASE out = "ok" ->
                /\ running' = FALSE
                /\ calls' = [calls EXCEPT ![c] = Done(calls[c], "true")]
           [] out = "fail" ->
                /\ calls' = [calls EXCEPT ![c] = Done(calls[c], "false")]
                /\ UNCHANGED running
           [] OTHER ->
                /\ calls' = [calls EXCEPT ![c] = Done(calls[c], "raised")]
                /\ UNCHANGED running
    /\ UNCHANGED <<order_status_task, active_orders, orders, active_positions, heap,
                   signal_order_map, processed_signals, stats, sig_status, tasks,
                   exchange_orders>>
    /\ UNCHANGED ncalls
    /\ UNCHANGED lib_vars

(***************************************************************************)
(* ExecutionEngine.emergency_close_all_positions  (engine.py 661-713)      *)
(***************************************************************************)
\* the call of place_order for the Position with reference ref
CloseAttempt(call, hp, ref) ==
    Await([call EXCEPT !.order = Some(ExitOrder(hp[ref], None))], "close_place_order")

\* from the call to the first await of place_order (engine.py 668-691)
EmergencyBegin(c) ==
    /\ CanBegin(c)
    /\ calls' = Take(c,
         LET call == [IdleCall EXCEPT !.op = "emergency_close_all_positions"]
             refs == [i \in DOMAIN active_positions |-> active_positions[i].ref]
         IN  IF ~running THEN Done(call, "false")
             ELSE IF refs = <<>> THEN Done(call, "true")
             ELSE CloseAttempt([call EXCEPT !.todo = refs], heap, refs[1]))
    /\ UNCHANGED <<running, order_status_task, active_orders, orders, active_positions,
                   heap, signal_order_map, processed_signals, stats, sig_status, tasks,
                   exchange_orders>>
    /\ Begin
    /\ UNCHANGED lib_vars

\* the counters and the sizes of the two maps, as get_statistics returns them
\* (engine.py 733-747)
Statistics ==
    [total_orders |-> stats.total_orders,
     successful_orders |-> stats.successful_orders,
     failed_orders |-> stats.failed_orders,
     total_positions |-> stats.total_positions,
     active_orders |-> Cardinality(active_orders),
     active_positions |-> Len(active_positions)]

\* get_statistics (engine.py 733-747): synchronous, returns the snapshot
GetStatistics(c) ==
    /\ CanBegin(c)
    /\ calls' = Take(c, Done([IdleCall EXCEPT !.op = "get_statistics"], "snapshot"))
    /\ UNCHANGED <<running, order_status_task, active_orders, orders, active_positions,
                   heap, signal_order_map, processed_signals, stats, sig_status, tasks,
                   exchange_orders>>
    /\ Begin
    /\ UNCHANGED lib_vars

\* the loop of emergency_close_all_positions after the position at the head
\* of todo: the next position's order, or the return (engine.py 679-713)
CloseNext(call, hp) ==
    IF Len(call.todo) <= 1 THEN Done(call, "true")
    ELSE CloseAttempt([call EXCEPT !.todo = Tail(@)], hp, call.todo[2])

\* the answer of place_order arrives (engine.py 691-711)
EmergencyPlaceOrder(c) ==
    /\ calls[c].pc = "close_place_order"
    /\ \E out \in CallOutcomes :
         LET call == calls[c]
             order == Val(call.order)
             oid == Len(exchange_orders) + 1
             hp == [heap EXCEPT ![call.todo[1]].exit_order_ids = Append(@, oid)]
         IN  CASE out = "ok" ->
                    /\ orders' = Append(orders, order)
                    /\ active_orders' = active_orders \cup {oid}
                    /\ exchange_orders' =
                         Append(exchange_orders,
                                [status |-> "accepted", origin |-> "emergency",
                                 side |-> order.side, quantity |-> order.quantity,
                                 order_type |-> order.order_type])
                    /\ heap' = hp
                    /\ stats' = CountPlaced(stats)
                    /\ calls' = [calls EXCEPT ![c] = CloseNext(call, hp)]
               [] out = "fail" ->
                    /\ calls' = [calls EXCEPT ![c] = CloseNext(call, heap)]
                    /\ UNCHANGED <<orders, active_orders, exchange_orders, heap, stats>>
               [] OTHER ->
                    /\ calls' = [calls EXCEPT ![c] = Done(call, "raised")]
                    /\ UNCHANGED <<orders, active_orders, exchange_orders, heap, stats>>
    /\ UNCHANGED <<running, order_status_task, active_positions, signal_order_map,
                   processed_signals, sig_status, tasks>>
    /\ UNCHANGED ncalls
    /\ UNCHANGED lib_vars

(***************************************************************************)
(* ExecutionEngine._monitor_order_status and the fill handling             *)
(* (engine.py 371-659).  The task's steps are computed on a record of the  *)
(* engine state they read and write.                                       *)
(***************************************************************************)
EngineState ==
    [tasks |-> tasks, active_orders |-> active_orders, orders |-> orders,
     active_positions |-> active_positions, heap |-> heap, stats |-> stats,
     exchange_orders |-> exchange_orders]

\* `except Exception` of the loop: the pass is abandoned and the task sleeps
ToSleep(st, t) ==
    [st EXCEPT !.tasks[t] = [NewTask EXCEPT !.last_pass = "raised"]]

\* the for loop has run to its end: the pass is complete and the task sleeps
PassComplete(st, t) ==
    [st EXCEPT !.tasks[t] = [NewTask EXCEPT !.last_pass = "completed"]]

\* `if not order.is_active(): continue` (engine.py 384-385)
SkipsOrderMutant(order) == FALSE
SkipsOrder(order) == ~OrderIsActive(order)

\* the for loop over the snapshot of order ids from its next id to the await
\* of get_order_status (engine.py 380-388); a snapshot id that has left
\* active_orders raises KeyError
RECURSIVE ScanOrders(_, _, _)
ScanOrders(st, t, ids) ==
    IF ids = <<>> THEN PassComplete(st, t)
    ELSE IF Head(ids) \notin st.active_orders THEN ToSleep(st, t)
    ELSE IF SkipsOrder(st.orders[Head(ids)]) THEN ScanOrders(st, t, Tail(ids))
    ELSE [st EXCEPT !.tasks[t] = [NewTask EXCEPT !.pc = "poll", !.cur = Head(ids),
                                                 !.rest = Tail(ids)]]

\* the end of the loop body for the order the task holds (engine.py 411-413),
\* then the rest of the snapshot
LoopTail(st, t) ==
    LET cur == st.tasks[t].cur
    IN  IF OrderIsActive(st.orders[cur]) THEN ScanOrders(st, t, st.tasks[t].rest)
        ELSE IF cur \notin st.active_orders THEN ToSleep(st, t)
        ELSE ScanOrders([st EXCEPT !.active_orders = @ \ {cur}], t, st.tasks[t].rest)

\* the broker accepts order `order` with the next exchange order id
Accept(st, order, origin) ==
    [st EXCEPT !.orders = Append(@, order),
               !.active_orders = @ \cup {Len(st.exchange_orders) + 1},
               !.exchange_orders = Append(@, [status |-> "accepted", origin |-> origin,
                                             side |-> order.side,
                                             quantity |-> order.quantity,
                                             order_type |-> order.order_type]),
               !.stats = CountPlaced(@)]

\* the protective order of _place_stop_loss_order / _place_take_profit_order
ProtectiveOrder(p, kind, price) ==
    NewOrder(IF kind = "stop" THEN "stop" ELSE "limit",
             IF p.side = "long" THEN "sell" ELSE "buy",
             p.quantity,
             IF kind = "stop" THEN None ELSE price,
             IF kind = "stop" THEN price ELSE None)

\* _handle_entry_fill after its stop-loss order: the take-profit order, if the
\* filled order carries a take-profit price (engine.py 489-490)
AfterStopLoss(st, t) ==
    LET task == st.tasks[t]
        filled == st.orders[task.cur]
    IN  IF Truthy(filled.take_profit_price)
        THEN [st EXCEPT !.tasks[t].pc = "place_take_profit",
                        !.tasks[t].order = Some(ProtectiveOrder(st.heap[task.posref], "limit",
                                                                filled.take_profit_price))]
        ELSE LoopTail(st, t)

\* _handle_entry_fill (engine.py 457-490)
HandleEntryFill(st, t) ==
    LET cur == st.tasks[t].cur
        order == st.orders[cur]
        ref == Len(st.heap) + 1
        avg == IF IsNone(order.average_fill_price) THEN None
               ELSE Some(Val(order.average_fill_price).num \div Val(order.average_fill_price).den)
        made == CreatePosition(<<"NEW", ref>>, order.side, order.filled_quantity,
                               avg, avg, <<cur>>)
    IN  IF made.raised THEN ToSleep(st, t)
        ELSE
          LET st1 == [st EXCEPT !.heap = Append(@, Val(made.pos)),
                                !.active_positions = PosAssign(@, <<"NEW", ref>>, ref),
                                !.stats.total_positions = @ + 1,
                                !.tasks[t].posref = ref]
          IN  IF Truthy(order.stop_loss_price)
              THEN [st1 EXCEPT !.tasks[t].pc = "place_stop_loss",
                               !.tasks[t].order = Some(ProtectiveOrder(Val(made.pos), "stop",
                                                                       order.stop_loss_price))]
              ELSE AfterStopLoss(st1, t)

\* the loop of _cancel_position_orders from its next id to the await of
\* cancel_order (engine.py 644-650)
RECURSIVE CancelScan(_, _, _)
CancelScan(st, t, ids) ==
    IF ids = <<>> THEN LoopTail(st, t)
    ELSE IF Head(ids) \in st.active_orders /\ OrderIsActive(st.orders[Head(ids)])
    THEN [st EXCEPT !.tasks[t].pc = "cancel_order", !.tasks[t].cancel_ids = ids]
    ELSE CancelScan(st, t, Tail(ids))

\* _handle_exit_fill for the position with reference ref (engine.py 500-517)
HandleExitFill(st, t, ref) ==
    LET order == st.orders[st.tasks[t].cur]
        exit_price == IF IsNone(order.average_fill_price) THEN None
                      ELSE Some(Val(order.average_fill_price).num
                                  \div Val(order.average_fill_price).den)
        closed == PositionClose(st.heap[ref], exit_price, Some(order.filled_quantity))
    IN  IF closed.raised # "none" THEN ToSleep(st, t)
        ELSE
          LET st1 == [st EXCEPT !.heap[ref] = closed.pos]
          IN  IF IsOpen(closed.pos) THEN LoopTail(st1, t)
              ELSE IF IsNone(PosLookup(st.active_positions, closed.pos.id))
              THEN ToSleep(st1, t)
              ELSE CancelScan([st1 EXCEPT !.active_positions = PosDelete(@, closed.pos.id)],
                              t, closed.pos.stop_order_ids \o closed.pos.exit_order_ids)

\* _handle_filled_order (engine.py 433-448): an exit fill if a tracked
\* position lists the order among its exit orders, else an entry fill
HandleFilledOrder(st, t) ==
    LET cur == st.tasks[t].cur
        ap == st.active_positions
        linked == {i \in DOMAIN ap :
                     \E k \in DOMAIN st.heap[ap[i].ref].exit_order_ids :
                        st.heap[ap[i].ref].exit_order_ids[k] = cur}
    IN  IF linked # {}
        THEN HandleExitFill(st, t, ap[CHOOSE i \in linked : \A j \in linked : i <= j].ref)
        ELSE HandleEntryFill(st, t)

\* the answer of get_order_status arrives (engine.py 388-413)
PollAnswer(st, t, out) ==
    LET cur == st.tasks[t].cur
        order == st.orders[cur]
        status == st.exchange_orders[cur].status
    IN  CASE out = "raise" -> ToSleep(st, t)
          [] out = "none" -> ScanOrders(st, t, st.tasks[t].rest)
          [] OTHER ->
               IF status = order.status THEN LoopTail(st, t)
               ELSE LET st1 == [st EXCEPT !.orders[cur] = UpdateStatus(order, status, None, None)]
                    IN  IF status \in {"filled", "partially_filled"}
                        THEN HandleFilledOrder(st1, t)
                        ELSE LoopTail(st1, t)

\* the answer of place_order arrives in _place_stop_loss_order or
\* _place_take_profit_order (engine.py 556-581, 607-632)
ProtectAnswer(st, t, out) ==
    LET task == st.tasks[t]
        oid == Len(st.exchange_orders) + 1
        placed == Accept(st, Val(task.order),
                         IF task.pc = "place_stop_loss" THEN "stop_loss" ELSE "take_profit")
        linked == IF task.pc = "place_stop_loss"
                  THEN [placed EXCEPT !.heap[task.posref].stop_order_ids = Append(@, oid)]
                  ELSE [placed EXCEPT !.heap[task.posref].exit_order_ids = Append(@, oid)]
        after == IF out = "ok" THEN linked ELSE st
    IN  IF out = "raise" THEN ToSleep(st, t)
        ELSE IF task.pc = "place_stop_loss" THEN AfterStopLoss(after, t)
        ELSE LoopTail(after, t)

\* the answer of cancel_order arrives in _cancel_position_orders
\* (engine.py 650-659)
CancelAnswer(st, t, out) ==
    LET ids == st.tasks[t].cancel_ids
        id == Head(ids)
        done == [st EXCEPT !.orders[id] = UpdateStatus(@, "cancelled", None, None),
                           !.exchange_orders[id].status = "cancelled"]
    IN  IF out = "raise" THEN ToSleep(st, t)
        ELSE CancelScan(IF out = "ok" THEN done ELSE st, t, Tail(ids))

\* what may resume the task: its cancellation, the start of a pass, or the
\* answer of the broker call it awaits
ResumeOutcomes(t) ==
    CASE tasks[t].must_cancel -> {"cancelled"}
      [] tasks[t].pc = "sleep" -> {"run"}
      [] tasks[t].pc = "poll" -> StatusOutcomes
      [] tasks[t].pc \in {"place_stop_loss", "place_take_profit"} ->
           CallOutcomes
      [] OTHER -> CallOutcomes

\* one step of the reconciliation task, from the await it is suspended in to
\* its next await.  A cancelled task ends: CancelledError leaves the loop
\* (engine.py 415-417) or, raised by the sleep, the coroutine.
MonitorStep(st, t, out) ==
    CASE out = "cancelled" -> [st EXCEPT !.tasks[t] = [NewTask EXCEPT !.pc = "done"]]
      [] out = "run" -> ScanOrders(st, t, SortedIds(st.active_orders))
      [] st.tasks[t].pc = "poll" -> PollAnswer(st, t, out)
      [] st.tasks[t].pc \in {"place_stop_loss", "place_take_profit"} -> ProtectAnswer(st, t, out)
      [] OTHER -> CancelAnswer(st, t, out)

\* the task resumes with outcome out
MonitorTakes(t, out) ==
    LET st == MonitorStep(EngineState, t, out)
    IN  /\ tasks' = st.tasks
        /\ active_orders' = st.active_orders
        /\ orders' = st.orders
        /\ active_positions' = st.active_positions
        /\ heap' = st.heap
        /\ stats' = st.stats
        /\ exchange_orders' = st.exchange_orders

MonitorResume(t) ==
    /\ tasks[t].pc # "done"
    /\ \E out \in ResumeOutcomes(t) : MonitorTakes(t, out)
    /\ UNCHANGED <<running, order_status_task, signal_order_map, processed_signals,
                   sig_status, calls>>
    /\ UNCHANGED ncalls
    /\ UNCHANGED lib_vars

\* the market moves an order at the broker
BrokerProgress(oid) ==
    /\ \E status \in BrokerMoves(exchange_orders[oid]) :
         exchange_orders' = [exchange_orders EXCEPT ![oid].status = status]
    /\ UNCHANGED <<running, order_status_task, active_orders, orders, active_positions,
                   heap, signal_order_map, processed_signals, stats, sig_status, tasks,
                   calls>>
    /\ UNCHANGED ncalls
    /\ UNCHANGED lib_vars

(***************************************************************************)
(* The engine's specifications.  Spec: public operations may overlap on    *)
(* the event loop.  SpecSeq: each public operation is awaited before the   *)
(* next is called; the reconciliation task runs beside it.                 *)
(***************************************************************************)
EngineNext(C) ==
    \/ \E c \in C : StartBegin(c)
    \/ \E c \in C : StartConnect(c)
    \/ \E c \in C : StopBegin(c)
    \/ \E c \in C : StopJoin(c)
    \/ \E c \in C : StopDisconnect(c)
    \/ \E c \in C, s \in SignalObjs : ProcessSignalBegin(c, s)
    \/ \E c \in C : EntryAccountInfo(c)
    \/ \E c \in C : EntryMarketData(c)
    \/ \E c \in C : EntryPlaceOrder(c)
    \/ \E c \in C : ExitGetPosition(c)
    \/ \E c \in C : ExitPlaceOrder(c)
    \/ \E c \in C : EmergencyBegin(c)
    \/ \E c \in C : EmergencyPlaceOrder(c)
    \/ \E c \in C : GetStatistics(c)
    \/ \E t \in DOMAIN tasks : MonitorResume(t)
    \/ \E oid \in DOMAIN exchange_orders : BrokerProgress(oid)

PosIdle == pos = None /\ pos_call = None /\ pos_ops = 0
OrdIdle == ord = None /\ ord_call = None /\ ord_sum = None /\ ord_ops = 0
SgnIdle == sgn = None
RiskIdle == risk = None
BtIdle == bt = None
TrkIdle == trk = None
LdIdle == ld = None
RecIdle == rec = None
LiveIdle == live = None

Init == EngineInit /\ PosIdle /\ OrdIdle /\ SgnIdle /\ RiskIdle /\ BtIdle /\ TrkIdle /\ LdIdle /\ RecIdle /\ LiveIdle
Next == EngineNext(Callers)
Spec == Init /\ [][Next]_vars

NextSeq == EngineNext({1})
SpecSeq == Init /\ [][NextSeq]_vars

\* the reconciliation tasks there can be: start() creates at most one per call
TaskIds == 1 .. MaxCalls
\* the event loop runs every task that can run: its sleep ends and the broker
\* calls it awaits return or raise
MonitorRuns(t) == t \in DOMAIN tasks /\ MonitorResume(t)
SpecSeqFair == SpecSeq /\ \A t \in TaskIds : WF_vars(MonitorRuns(t))

\* the broker keeps answering: every call the task awaits returns what the
\* broker holds, none raises or returns None / False
Answers == {"cancelled", "run", "status", "ok"}
MonitorAnswered(t) ==
    /\ tasks[t].pc # "done"
    /\ \E out \in ResumeOutcomes(t) \cap Answers : MonitorTakes(t, out)
    /\ UNCHANGED <<running, order_status_task, signal_order_map, processed_signals,
                   sig_status, calls, ncalls, lib_vars>>
NextAnswered ==
    \/ StartBegin(1)
    \/ StartConnect(1)
    \/ StopBegin(1)
    \/ StopJoin(1)
    \/ StopDisconnect(1)
    \/ \E s \in SignalObjs : ProcessSignalBegin(1, s)
    \/ EntryAccountInfo(1)
    \/ EntryMarketData(1)
    \/ EntryPlaceOrder(1)
    \/ ExitGetPosition(1)
    \/ ExitPlaceOrder(1)
    \/ EmergencyBegin(1)
    \/ EmergencyPlaceOrder(1)
    \/ GetStatistics(1)
    \/ \E t \in DOMAIN tasks : MonitorAnswered(t)
    \/ \E oid \in DOMAIN exchange_orders : BrokerProgress(oid)
MonitorAnswers(t) == t \in DOMAIN tasks /\ MonitorAnswered(t)
SpecSeqAnswered ==
    Init /\ [][NextAnswered]_vars /\ \A t \in TaskIds : WF_vars(MonitorAnswers(t))

(***************************************************************************)
(* The engine with a protective order in place: the state a returned       *)
(* start(), a position tracked under a signal's position id and a          *)
(* successful _place_stop_loss_order(position, stop_price) for it leave    *)
(* (two calls made); from there the public operations, the reconciliation  *)
(* task and the broker go on as in SpecSeq.                                *)
(***************************************************************************)
StopPrices == {98, 102}
\* the engine after start() has returned true
Started ==
    [tasks |-> <<NewTask>>, active_orders |-> {}, orders |-> <<>>,
     active_positions |-> <<>>, heap |-> <<>>,
     stats |-> [total_orders |-> 0, successful_orders |-> 0, failed_orders |-> 0,
                total_positions |-> 0],
     exchange_orders |-> <<>>]
\* _place_stop_loss_order for the position at ref, place_order succeeding
\* (engine.py 543-581)
PlaceStopLoss(st, ref, stop_price) ==
    LET placed == Accept(st, ProtectiveOrder(st.heap[ref], "stop", Some(stop_price)), "stop_loss")
    IN  [placed EXCEPT !.heap[ref].stop_order_ids = Append(@, Len(st.exchange_orders) + 1)]
ProtectedInit ==
    /\ \E instrument \in {"X", "Y"}, stop_price \in StopPrices :
         LET tracked == [Started EXCEPT !.heap = <<BrokerPosition(instrument, 1)>>,
                                        !.active_positions = <<[key |-> <<"P", 1>>, ref |-> 1]>>]
             st == PlaceStopLoss(tracked, 1, stop_price)
         IN  /\ tasks = st.tasks
             /\ active_orders = st.active_orders
             /\ orders = st.orders
             /\ active_positions = st.active_positions
             /\ heap = st.heap
             /\ stats = st.stats
             /\ exchange_orders = st.exchange_orders
    /\ running = TRUE
    /\ order_status_task = Some(1)
    /\ signal_order_map = [i \in {} |-> <<>>]
    /\ processed_signals = {}
    /\ sig_status = [s \in SignalObjs |-> "active"]
    /\ calls = [c \in Callers |-> IF c = 1 THEN Done([IdleCall EXCEPT !.op = "start"], "true")
                                  ELSE IdleCall]
    /\ ncalls = 2
    /\ PosIdle /\ OrdIdle /\ SgnIdle /\ RiskIdle /\ BtIdle /\ TrkIdle /\ LdIdle /\ RecIdle /\ LiveIdle
SpecProtected == ProtectedInit /\ [][NextSeq]_vars

(***************************************************************************)
(* The Position specification: one Position built by the factory, then     *)
(* update_price and close applied to it with arguments from bounded sets.  *)
(* The engine is left as constructed.                                      *)
(***************************************************************************)
\* the prices the market offers
Prices == {98, 103}

\* the quantity argument of Position.close: omitted, or a number from -1
\* (negative) through 0 to one more than the largest quantity
CloseQuantities == {None} \cup {Some(q) : q \in (0 - 1) .. (MaxQty + 1)}

\* the Positions PositionFactory.create_position builds
NewPositions ==
    {Val(CreatePosition(<<"X", 0>>, order_side, quantity, Some(100), Some(current_price),
                        <<>>).pos) :
       order_side \in {"buy", "sell"}, quantity \in 1 .. MaxQty, current_price \in Prices}

PositionInit ==
    /\ EngineInit
    /\ OrdIdle
    /\ SgnIdle
    /\ RiskIdle
    /\ BtIdle
    /\ TrkIdle
    /\ LdIdle
    /\ RecIdle
    /\ LiveIdle
    /\ pos \in NewPositions
    /\ pos_call = None
    /\ pos_ops = 0

\* position.update_price(current_price)
PosUpdatePrice(current_price) ==
    /\ pos_ops < MaxPosOps
    /\ pos' = UpdatePrice(pos, current_price)
    /\ pos_call' = Some([op |-> "update_price", exit_price |-> Some(current_price),
                         quantity |-> None, raised |-> "none", pnl |-> 0, before |-> pos])
    /\ pos_ops' = pos_ops + 1
    /\ UNCHANGED outside_pos

\* position.close(exit_price, quantity)
PosClose(exit_price, quantity) ==
    /\ pos_ops < MaxPosOps
    /\ LET r == PositionClose(pos, Some(exit_price), quantity)
       IN  /\ pos' = r.pos
           /\ pos_call' = Some([op |-> "close", exit_price |-> Some(exit_price),
                                quantity |-> quantity, raised |-> r.raised, pnl |-> r.pnl,
                                before |-> pos])
    /\ pos_ops' = pos_ops + 1
    /\ UNCHANGED outside_pos

PositionNext ==
    \/ \E current_price \in Prices : PosUpdatePrice(current_price)
    \/ \E exit_price \in Prices, quantity \in CloseQuantities : PosClose(exit_price, quantity)

SpecPosition == PositionInit /\ [][PositionNext]_vars

(***************************************************************************)
(* The Order specification: one Order built by the factory, then           *)
(* update_status applied to it with arguments from bounded sets.           *)
(***************************************************************************)
\* OrderStatus
OrderStatuses ==
    {"created", "pending", "accepted", "partially_filled", "filled", "cancelled",
     "rejected", "expired", "error"}

\* the filled_qty argument: omitted, zero, or a number of units
FillQuantities == {None} \cup {Some(q) : q \in 0 .. (MaxQty - 1)}

\* the fill_price argument: omitted or a price
FillPrices == {None} \cup {Some(price) : price \in Prices}

\* the Orders OrderFactory.create_market_order builds
NewOrders == {NewOrder("market", "buy", quantity, None, None) : quantity \in 1 .. MaxQty}

OrderInit ==
    /\ EngineInit
    /\ PosIdle
    /\ SgnIdle
    /\ RiskIdle
    /\ BtIdle
    /\ TrkIdle
    /\ LdIdle
    /\ RecIdle
    /\ LiveIdle
    /\ ord \in NewOrders
    /\ ord_call = None
    /\ ord_sum = [qty |-> 0, notional |-> 0, unpriced |-> FALSE]
    /\ ord_ops = 0

\* order.update_status(new_status, filled_qty, fill_price).  ord_sum adds up
\* what the call reports: the units filled, their cost, and whether units
\* were reported with no price.
OrdUpdateStatus(new_status, filled_qty, fill_price) ==
    /\ ord_ops < MaxOrderOps
    /\ ord' = UpdateStatus(ord, new_status, filled_qty, fill_price)
    /\ ord_call' = Some([new_status |-> new_status, filled_qty |-> filled_qty,
                         fill_price |-> fill_price])
    /\ ord_sum' = IF IsNone(filled_qty) \/ Val(filled_qty) <= 0 THEN ord_sum
                  ELSE IF IsNone(fill_price)
                  THEN [ord_sum EXCEPT !.qty = @ + Val(filled_qty), !.unpriced = TRUE]
                  ELSE [ord_sum EXCEPT !.qty = @ + Val(filled_qty),
                                       !.notional = @ + Val(filled_qty) * Val(fill_price)]
    /\ ord_ops' = ord_ops + 1
    /\ UNCHANGED outside_ord

OrderNext ==
    \E new_status \in OrderStatuses, filled_qty \in FillQuantities, fill_price \in FillPrices :
       OrdUpdateStatus(new_status, filled_qty, fill_price)

SpecOrder == OrderInit /\ [][OrderNext]_vars

(***************************************************************************)
(* The Signal specification: one Signal, constructed ACTIVE with or        *)
(* without an expiration, the clock datetime.utcnow() reads, and the       *)
(* methods is_active, execute, cancel and invalidate called in any order.  *)
(***************************************************************************)
SignalStatuses == {"active", "executed", "expired", "cancelled", "invalidated"}

\* Signal(...): status defaults to ACTIVE, expiration is optional
NewSignals == {[status |-> "active", expiration |-> e] :
                 e \in {None} \cup {Some(t) : t \in 1 .. (MaxTime - 1)}}

\* the expiration test of is_active: an expiration is set and the clock is past it
ExpirationPassedMutant(sg, now) ==
    sg.expiration # None /\ now > Val(sg.expiration) + 1
ExpirationPassed(sg, now) ==
    sg.expiration # None /\ now > Val(sg.expiration)

\* Signal.is_active at clock reading now: the signal afterwards and the result
IsActive(sg, now) ==
    IF sg.status # "active" THEN [signal |-> sg, result |-> FALSE]
    ELSE IF ExpirationPassed(sg, now)
    THEN [signal |-> [sg EXCEPT !.status = "expired"], result |-> FALSE]
    ELSE [signal |-> sg, result |-> TRUE]

SignalInit ==
    /\ EngineInit
    /\ PosIdle
    /\ OrdIdle
    /\ RiskIdle
    /\ BtIdle
    /\ TrkIdle
    /\ LdIdle
    /\ RecIdle
    /\ LiveIdle
    /\ \E sg \in NewSignals :
         sgn = Some([signal |-> sg, now |-> 0, call |-> None, expired_by |-> None,
                     ops |-> 0])

\* the clock moves on
SgnTick ==
    /\ sgn # None
    /\ Val(sgn).now < MaxTime
    /\ sgn' = Some([Val(sgn) EXCEPT !.now = @ + 1])
    /\ UNCHANGED outside_sgn

\* signal.is_active(); expired_by keeps the number of the call that set EXPIRED
SgnIsActive ==
    /\ sgn # None
    /\ Val(sgn).ops < MaxSignalOps
    /\ LET st == Val(sgn)
           r == IsActive(st.signal, st.now)
       IN  sgn' = Some([st EXCEPT
                 !.signal = r.signal,
                 !.call = Some([op |-> "is_active", before |-> st.signal,
                                now |-> st.now, result |-> r.result]),
                 !.expired_by = IF st.signal.status = "active"
                                   /\ r.signal.status = "expired"
                                THEN Some(st.ops + 1) ELSE @,
                 !.ops = @ + 1])
    /\ UNCHANGED outside_sgn

\* signal.execute(...), signal.cancel(...), signal.invalidate(...): each sets
\* the status it is named after, whatever the status was
SgnSetStatus(op, status) ==
    /\ sgn # None
    /\ Val(sgn).ops < MaxSignalOps
    /\ sgn' = Some([Val(sgn) EXCEPT
              !.signal.status = status,
              !.call = Some([op |-> op, before |-> Val(sgn).signal,
                             now |-> Val(sgn).now, result |-> FALSE]),
              !.ops = @ + 1])
    /\ UNCHANGED outside_sgn

SgnExecute == SgnSetStatus("execute", "executed")
SgnCancel == SgnSetStatus("cancel", "cancelled")
SgnInvalidate == SgnSetStatus("invalidate", "invalidated")

SignalNext ==
    \/ SgnTick
    \/ SgnIsActive
    \/ SgnExecute
    \/ SgnCancel
    \/ SgnInvalidate
SpecSignal == SignalInit /\ [][SignalNext]_vars

(***************************************************************************)
(* The Risk specification: one call of calculate_position_size on a        *)
(* RiskCalculator built with its defaults, the arguments drawn from the    *)
(* sets below.  Percentages are in units of 1 / RiskPctDen.                *)
(***************************************************************************)
AccountBalances == {0, 150, 1000, 100000}
EntryPrices == {98, 100}
StopLosses == {98, 100, 101}
LotSizes == {1, 5}
ContractSizes == {1, 2}
RiskPercentages == {None} \cup {Some(n) : n \in {0, 1, 3, 5, 10}}
TakeProfits == {None} \cup {Some(price) : price \in {100, 101, 106}}

RiskArgs ==
    [account_balance : AccountBalances, entry_price : EntryPrices,
     stop_loss : StopLosses, lot_size : LotSizes, contract_size : ContractSizes,
     risk_percentage : RiskPercentages, take_profit : TakeProfits]

RiskInit ==
    /\ EngineInit
    /\ PosIdle
    /\ OrdIdle
    /\ SgnIdle
    /\ BtIdle
    /\ TrkIdle
    /\ LdIdle
    /\ RecIdle
    /\ LiveIdle
    /\ \E args \in RiskArgs : risk = Some([args |-> args, result |-> None])

\* calculator.calculate_position_size(account_balance, entry_price, stop_loss,
\*                                    instrument, risk_percentage, take_profit)
RiskCalculate ==
    /\ risk # None
    /\ Val(risk).result = None
    /\ LET a == Val(risk).args
       IN  risk' = Some([Val(risk) EXCEPT !.result =
                 Some(PositionSize(a.account_balance, a.entry_price, a.stop_loss,
                                   a.lot_size, a.contract_size, a.risk_percentage,
                                   a.take_profit))])
    /\ UNCHANGED outside_risk

RiskNext == RiskCalculate
SpecRisk == RiskInit /\ [][RiskNext]_vars

(***************************************************************************)
(* The Backtest specification  (src/backtesting/backtest.py):              *)
(* BacktestEngine.run() over a price series of one instrument, one bar at  *)
(* a time.  On each bar the strategy places no order or one order, with    *)
(* the bar's Close as its price or with no price (place_market_order's     *)
(* default).  Amounts are exact fractions num / den with den > 0.  Daily   *)
(* returns feed neither total_return_pct nor max_drawdown_pct and are left *)
(* out.                                                                    *)
(***************************************************************************)
RECURSIVE Gcd(_, _)
Gcd(a, b) == IF b = 0 THEN a ELSE Gcd(b, a % b)

\* the fraction n / d (d > 0) in lowest terms
Fraction(n, d) ==
    LET g == Gcd(Abs(n), d)
    IN  [num |-> n \div g, den |-> d \div g]
Whole(n) == [num |-> n, den |-> 1]
FracAdd(a, b) == Fraction(a.num * b.den + b.num * a.den, a.den * b.den)
FracSub(a, b) == Fraction(a.num * b.den - b.num * a.den, a.den * b.den)
FracTimes(a, k) == Fraction(a.num * k, a.den)
FracLess(a, b) == a.num * b.den < b.num * a.den

\* trade_pnl per unit closed: a BUY closes a short, a SELL closes a long
TradePnlMutant(transaction_type, current_average_price, price) ==
    FracSub(Whole(price), current_average_price)
TradePnl(transaction_type, current_average_price, price) ==
    IF transaction_type = "BUY"
    THEN FracSub(current_average_price, Whole(price))
    ELSE FracSub(Whole(price), current_average_price)

\* update_position's last assignment: unrealized_pnl at the trade price
UnrealizedPnlMutant(price, new_average_price, new_quantity) ==
    FracTimes(FracSub(new_average_price, Whole(price)), new_quantity)
UnrealizedPnl(price, new_average_price, new_quantity) ==
    FracTimes(FracSub(Whole(price), new_average_price), new_quantity)

\* MockPositionTracker.update_position for an order with a price: the
\* position after the order; p is the position before, or None
UpdatePosition(p, transaction_type, quantity, price) ==
    LET current_quantity == IF p = None THEN 0 ELSE Val(p).quantity
        current_average_price == IF p = None THEN Whole(0) ELSE Val(p).average_price
        realized_pnl == IF p = None THEN Whole(0) ELSE Val(p).realized_pnl
        held == Abs(current_quantity)
        \* the order reduces a position of the opposite side without flipping it
        reduces == IF transaction_type = "BUY"
                   THEN current_quantity < 0 /\ held >= quantity
                   ELSE current_quantity > 0 /\ current_quantity >= quantity
        opposite == IF transaction_type = "BUY" THEN current_quantity < 0
                    ELSE current_quantity > 0
        closing_quantity == IF reduces THEN quantity
                            ELSE IF opposite THEN Min(held, quantity) ELSE 0
        per_unit == TradePnl(transaction_type, current_average_price, price)
        new_realized == IF closing_quantity > 0
                        THEN FracAdd(realized_pnl, FracTimes(per_unit, closing_quantity))
                        ELSE realized_pnl
        sign == IF transaction_type = "BUY" THEN 1 ELSE 0 - 1
        fresh == IF transaction_type = "BUY" THEN current_quantity <= 0
                 ELSE current_quantity >= 0
        new_quantity == IF reduces THEN current_quantity + sign * quantity
                        ELSE IF fresh THEN sign * (quantity - closing_quantity)
                        ELSE current_quantity + sign * quantity
        new_average_price ==
            IF reduces THEN (IF new_quantity = 0 THEN Whole(0) ELSE current_average_price)
            ELSE IF fresh THEN Whole(price)
            ELSE Fraction(held * current_average_price.num
                            + quantity * price * current_average_price.den,
                          current_average_price.den * Abs(new_quantity))
    IN  Some([quantity |-> new_quantity,
              average_price |-> IF new_quantity # 0 THEN new_average_price ELSE Whole(0),
              last_price |-> price,
              realized_pnl |-> new_realized,
              unrealized_pnl |-> UnrealizedPnl(price, new_average_price, new_quantity)])

\* MockPositionTracker.update_market_price
UpdateMarketPrice(p, price) ==
    IF p = None THEN p
    ELSE Some([Val(p) EXCEPT
                 !.last_price = price,
                 !.unrealized_pnl = FracTimes(FracSub(Whole(price), Val(p).average_price),
                                              Val(p).quantity)])

\* run(): current_equity, the sum of realized_pnl + unrealized_pnl over the positions
Equity(p) ==
    IF p = None THEN Whole(0) ELSE FracAdd(Val(p).realized_pnl, Val(p).unrealized_pnl)

\* a float a metric can be: a number, NaN or minus infinity
Num(f) == [kind |-> "num", num |-> f.num, den |-> f.den]
NaN == [kind |-> "nan", num |-> 0, den |-> 1]
NegInf == [kind |-> "neg_inf", num |-> 0, den |-> 1]

\* total_return: guarded against a zero start_equity
TotalReturn(equity_curve) ==
    LET start_equity == equity_curve[1]
        end_equity == equity_curve[Len(equity_curve)]
    IN  IF start_equity.num # 0
        THEN LET d == FracSub(end_equity, start_equity)
             IN  Num(Fraction((IF start_equity.num < 0 THEN 0 - 1 ELSE 1)
                                * 100 * d.num * start_equity.den,
                              d.den * Abs(start_equity.num)))
        ELSE Num(Whole(0))

\* equity_df['equity'].cummax() at row i
RECURSIVE Peak(_, _)
Peak(equity_curve, i) ==
    IF i = 1 THEN equity_curve[1]
    ELSE LET before == Peak(equity_curve, i - 1)
         IN  IF FracLess(before, equity_curve[i]) THEN equity_curve[i] ELSE before

\* what a division by a zero peak leaves in the drawdown column: 0 / 0 is NaN
\* and a negative number over 0 is minus infinity
ZeroPeakDrawdown(difference) ==
    IF difference.num = 0 THEN NaN ELSE NegInf

\* the drawdown column at row i: (equity - peak) / peak * 100, by pandas
\* division, which does not raise on a zero peak
Drawdown(equity_curve, i) ==
    LET peak == Peak(equity_curve, i)
        d == FracSub(equity_curve[i], peak)
    IN  IF peak.num = 0 THEN ZeroPeakDrawdown(d)
        ELSE Num(Fraction((IF peak.num < 0 THEN 0 - 1 ELSE 1) * 100 * d.num * peak.den,
                          d.den * Abs(peak.num)))

\* the smaller of two column values as Series.min() takes it: NaN is skipped
MinSkipNa(a, b) ==
    IF a.kind = "nan" THEN b
    ELSE IF b.kind = "nan" THEN a
    ELSE IF a.kind = "neg_inf" \/ b.kind = "neg_inf" THEN NegInf
    ELSE IF FracLess(b, a) THEN b ELSE a

\* equity_df['drawdown'].min() over rows 1 .. i; NaN when every row is NaN
RECURSIVE MaxDrawdown(_, _)
MaxDrawdown(equity_curve, i) ==
    IF i = 1 THEN Drawdown(equity_curve, 1)
    ELSE MinSkipNa(MaxDrawdown(equity_curve, i - 1), Drawdown(equity_curve, i))

\* _calculate_performance_metrics: the two metrics and num_trades
CalculatePerformanceMetrics(trades, equity_curve) ==
    [total_return_pct |-> TotalReturn(equity_curve),
     max_drawdown_pct |-> MaxDrawdown(equity_curve, Len(equity_curve)),
     num_trades |-> trades]

\* what strategy.on_tick_data may do on a bar whose Close is close: place
\* nothing, or one BUY or SELL order priced at the Close or left unpriced
StrategyOrders(close) ==
    {None} \cup {Some([transaction_type |-> t, quantity |-> q, price |-> price]) :
                   t \in {"BUY", "SELL"}, q \in 1 .. 2, price \in {None, Some(close)}}

BacktestInit ==
    /\ EngineInit
    /\ PosIdle
    /\ OrdIdle
    /\ SgnIdle
    /\ RiskIdle
    /\ TrkIdle
    /\ LdIdle
    /\ RecIdle
    /\ LiveIdle
    /\ bt = Some([closes |-> <<>>, position |-> None, trades |-> 0,
                  equity_curve |-> <<>>, phase |-> "bars", results |-> None])

\* one turn of run()'s loop over the bars: the market price is updated, the
\* strategy sees the tick, the equity is appended to the curve, then the new
\* order is turned into a position update.  An order without a price makes
\* update_position raise TypeError, which run() does not catch.
BtBar(close, order) ==
    /\ bt # None
    /\ Val(bt).phase = "bars"
    /\ Len(Val(bt).closes) < MaxBars
    /\ LET st == Val(bt)
           marked == UpdateMarketPrice(st.position, close)
           st1 == [st EXCEPT !.closes = Append(@, close),
                             !.equity_curve = Append(@, Equity(marked)),
                             !.position = marked]
       IN  bt' = Some(CASE order = None -> st1
                        [] order # None /\ Val(order).price = None ->
                             [st1 EXCEPT !.trades = @ + 1, !.phase = "raised"]
                        [] OTHER ->
                             [st1 EXCEPT
                                !.trades = @ + 1,
                                !.position = UpdatePosition(marked,
                                                 Val(order).transaction_type,
                                                 Val(order).quantity,
                                                 Val(Val(order).price))])
    /\ UNCHANGED outside_bt

\* the series is over: run() computes the metrics and returns them
BtFinish ==
    /\ bt # None
    /\ Val(bt).phase = "bars"
    /\ Len(Val(bt).closes) >= 1
    /\ bt' = Some([Val(bt) EXCEPT
             !.phase = "done",
             !.results = Some(CalculatePerformanceMetrics(Val(bt).trades,
                                                          Val(bt).equity_curve))])
    /\ UNCHANGED outside_bt

BacktestNext ==
    \/ \E close \in Prices : \E order \in StrategyOrders(close) : BtBar(close, order)
    \/ BtFinish
SpecBacktest == BacktestInit /\ [][BacktestNext]_vars

(***************************************************************************)
(* The Tracker specification: one MockPositionTracker and one instrument;  *)
(* update_position is called with BUY and SELL orders of any quantity and  *)
(* price from the sets below, in any order.                                *)
(***************************************************************************)
TrackerPrices == {100, 110}
TrackerOrders ==
    [transaction_type : {"BUY", "SELL"}, quantity : 1 .. 2, price : TrackerPrices]

TrackerInit ==
    /\ EngineInit
    /\ PosIdle
    /\ OrdIdle
    /\ SgnIdle
    /\ RiskIdle
    /\ BtIdle
    /\ LdIdle
    /\ RecIdle
    /\ LiveIdle
    /\ trk = Some([position |-> None, before |-> None, orders |-> <<>>])

\* tracker.update_position(instrument_key, transaction_type, quantity, price, ...)
TrkUpdatePosition(order) ==
    /\ trk # None
    /\ Len(Val(trk).orders) < MaxTrackerOps
    /\ trk' = Some([position |-> UpdatePosition(Val(trk).position, order.transaction_type,
                                                order.quantity, order.price),
                    before |-> Val(trk).position,
                    orders |-> Append(Val(trk).orders, order)])
    /\ UNCHANGED outside_trk

TrackerNext == \E order \in TrackerOrders : TrkUpdatePosition(order)
SpecTracker == TrackerInit /\ [][TrackerNext]_vars

(***************************************************************************)
(* The Load specification: a fresh BacktestEngine on which load_price_data *)
(* is called with files that are unreadable, lack a required column, carry *)
(* an unparseable Date or are good, and on which run() is called.  What a  *)
(* run over loaded data computes is the Backtest specification's subject;  *)
(* here run() only says whether it returned None.                          *)
(***************************************************************************)
FileKinds == {"unreadable", "missing_column", "bad_date", "good"}
InstrumentKeys == {"NSE_EQ_A", "NSE_EQ_B"}

\* BacktestEngine.load_price_data on engine state e (instruments, price_data):
\* the state afterwards and the value returned.  The instrument is registered
\* before the Date column is converted.
LoadPriceData(e, kind, instrument_key) ==
    IF kind \in {"unreadable", "missing_column"}
    THEN [engine |-> e, returned |-> FALSE]
    ELSE LET registered == [e EXCEPT !.instruments = @ \cup {instrument_key}]
         IN  IF kind = "bad_date"
             THEN [engine |-> registered, returned |-> FALSE]
             ELSE [engine |-> [registered EXCEPT !.price_data = Some(instrument_key)],
                   returned |-> TRUE]

\* the guards at the head of run(): no price data, or no instrument, gives None
RunReturnsNone(e) == e.price_data = None \/ e.instruments = {}

LoadInit ==
    /\ EngineInit
    /\ PosIdle
    /\ OrdIdle
    /\ SgnIdle
    /\ RiskIdle
    /\ BtIdle
    /\ TrkIdle
    /\ RecIdle
    /\ LiveIdle
    /\ ld = Some([engine |-> [instruments |-> {}, price_data |-> None],
                  before |-> None, call |-> None, ops |-> 0, loaded |-> FALSE])

\* engine.load_price_data(data_path, instrument_key)
LdLoad(kind, instrument_key) ==
    /\ ld # None
    /\ Val(ld).ops < MaxLoadOps
    /\ LET st == Val(ld)
           r == LoadPriceData(st.engine, kind, instrument_key)
       IN  ld' = Some([engine |-> r.engine,
                       before |-> Some(st.engine),
                       call |-> Some([op |-> "load_price_data", kind |-> kind,
                                      instrument_key |-> instrument_key,
                                      returned |-> r.returned, none |-> FALSE]),
                       ops |-> st.ops + 1,
                       loaded |-> st.loaded \/ r.returned])
    /\ UNCHANGED outside_ld

\* engine.run()
LdRun ==
    /\ ld # None
    /\ Val(ld).ops < MaxLoadOps
    /\ LET st == Val(ld)
       IN  ld' = Some([st EXCEPT
                 !.before = Some(st.engine),
                 !.call = Some([op |-> "run", kind |-> "good",
                                instrument_key |-> "NSE_EQ_A", returned |-> FALSE,
                                none |-> RunReturnsNone(st.engine)]),
                 !.ops = @ + 1])
    /\ UNCHANGED outside_ld

LoadNext ==
    \/ \E kind \in FileKinds, instrument_key \in InstrumentKeys : LdLoad(kind, instrument_key)
    \/ LdRun
SpecLoad == LoadInit /\ [][LoadNext]_vars

(***************************************************************************)
(* The Record specification  (src/models/position.py): one Position record *)
(* with any quantity, realized_pnl and unrealized_pnl in range, whose      *)
(* properties is_long, is_short and total_pnl are read.                    *)
(***************************************************************************)
IsLongMutant(p) == p.quantity >= 0
IsLong(p) == p.quantity > 0
IsShort(p) == p.quantity < 0
TotalPnl(p) == p.realized_pnl + p.unrealized_pnl

Records ==
    [quantity : (0 - MaxRecord) .. MaxRecord,
     realized_pnl : (0 - MaxRecord) .. MaxRecord,
     unrealized_pnl : (0 - MaxRecord) .. MaxRecord]

RecordInit ==
    /\ EngineInit
    /\ PosIdle
    /\ OrdIdle
    /\ SgnIdle
    /\ RiskIdle
    /\ BtIdle
    /\ TrkIdle
    /\ LdIdle
    /\ LiveIdle
    /\ \E p \in Records : rec = Some([position |-> p, read |-> None])

\* position.is_long, position.is_short, position.total_pnl
RecRead ==
    /\ rec # None
    /\ Val(rec).read = None
    /\ LET p == Val(rec).position
       IN  rec' = Some([position |-> p,
                        read |-> Some([is_long |-> IsLong(p), is_short |-> IsShort(p),
                                       total_pnl |-> TotalPnl(p)])])
    /\ UNCHANGED outside_rec

RecordNext == RecRead
SpecRecord == RecordInit /\ [][RecordNext]_vars

(***************************************************************************)
(* The live PositionTracker  (src/trading/position_tracker.py): one        *)
(* instrument, the monitoring threads start_monitoring creates, and the    *)
(* websocket thread that delivers ticks to on_tick_data.  The Position     *)
(* records fetch_positions builds are objects: `records` holds them and    *)
(* `positions` is the reference self.positions keeps for the instrument    *)
(* (0: no entry).  The engine is left as constructed.                      *)
(***************************************************************************)
MaxLiveCalls == 3
MaxPolls == 3
MaxTicks == 2
\* the position the broker reports: average_price, multiplier, quantity
average_price == 100
multiplier == 1
LiveQuantities == {0, 2}
\* the last_price the broker reports, and the ltp of a tick (0: no ltp)
ApiPrices == {100, 110}
TickPrices == {0, 105, 120}

\* Position.from_api_response (src/models/position.py 41-57) of the broker's data
FromApiResponse(quantity, last_price) ==
    [quantity |-> quantity,
     last_price |-> last_price,
     unrealized_pnl |-> (last_price - average_price) * quantity * multiplier]

IdleTick == [pc |-> "idle", ltp |-> 0, ref |-> 0, old_last_price |-> 0]

LiveInit ==
    /\ EngineInit
    /\ PosIdle
    /\ OrdIdle
    /\ SgnIdle
    /\ RiskIdle
    /\ BtIdle
    /\ TrkIdle
    /\ LdIdle
    /\ RecIdle
    /\ live = Some([monitoring |-> FALSE,
                    threads |-> <<>>,
                    records |-> <<>>,
                    positions |-> 0,
                    tick |-> IdleTick,
                    last_tick |-> None,
                    calls |-> 0,
                    ticks |-> 0])

\* start_monitoring (position_tracker.py 113-184): a no-op while monitoring;
\* otherwise the access test fails, or the flag is set and a thread started
StartMonitoring ==
    /\ live # None
    /\ Val(live).calls < MaxLiveCalls
    /\ \E access \in BOOLEAN :
         LET l == [Val(live) EXCEPT !.calls = @ + 1]
         IN  live' = Some(IF l.monitoring \/ ~access THEN l
                          ELSE [l EXCEPT !.monitoring = TRUE,
                                         !.threads = Append(@, [pc |-> "test", stopped |-> FALSE,
                                                                resumed |-> FALSE])])
    /\ UNCHANGED outside_live

\* stop_monitoring (position_tracker.py 186-190): clears the flag and joins
\* the last thread for at most a second.  A thread at the test of its while
\* loop leaves within that second; a thread in time.sleep(refresh_interval)
\* or inside the broker call of fetch_positions may outlast the join.
StopMonitoring ==
    /\ live # None
    /\ Val(live).calls < MaxLiveCalls
    /\ LET l == Val(live)
           told == [t \in DOMAIN l.threads |->
                      IF l.threads[t].pc = "done" THEN l.threads[t]
                      ELSE IF l.threads[t].pc = "test"
                      THEN [l.threads[t] EXCEPT !.pc = "done", !.stopped = TRUE]
                      ELSE [l.threads[t] EXCEPT !.stopped = TRUE]]
       IN  live' = Some([l EXCEPT !.calls = @ + 1, !.monitoring = FALSE, !.threads = told])
    /\ UNCHANGED outside_live

\* monitor_loop at `while self.monitoring` (position_tracker.py 153-155):
\* the thread ends, or calls fetch_positions
ThreadTest(t) ==
    /\ live # None
    /\ Val(live).threads[t].pc = "test"
    /\ LET l == Val(live)
       IN  live' = Some(IF l.monitoring
                        THEN [l EXCEPT !.threads[t].pc = "fetch",
                                       !.threads[t].resumed = l.threads[t].stopped]
                        ELSE [l EXCEPT !.threads[t].pc = "done"])
    /\ UNCHANGED outside_live

\* fetch_positions after the broker's answer (position_tracker.py 35-73): an
\* error stores nothing; a position is stored if it is not flat or the
\* instrument is already tracked.  Then the thread sleeps (175).
ThreadFetch(t) ==
    /\ live # None
    /\ Val(live).threads[t].pc = "fetch"
    /\ Len(Val(live).records) < MaxPolls
    /\ \E error \in BOOLEAN, quantity \in LiveQuantities, last_price \in ApiPrices :
         LET l == Val(live)
             position == FromApiResponse(quantity, last_price)
             slept == [l EXCEPT !.threads[t].pc = "sleep"]
         IN  live' = Some(IF error \/ (quantity = 0 /\ l.positions = 0) THEN slept
                          ELSE [slept EXCEPT !.records = Append(@, position),
                                             !.positions = Len(l.records) + 1,
                                             !.last_tick = None])
    /\ UNCHANGED outside_live

\* time.sleep(refresh_interval) returns (position_tracker.py 175)
ThreadWake(t) ==
    /\ live # None
    /\ Val(live).threads[t].pc = "sleep"
    /\ live' = Some([Val(live) EXCEPT !.threads[t].pc = "test"])
    /\ UNCHANGED outside_live

\* on_tick_data reads self.positions[instrument_key] (position_tracker.py 205-212)
TickRead ==
    /\ live # None
    /\ Val(live).tick.pc = "idle"
    /\ Val(live).ticks < MaxTicks
    /\ \E ltp \in TickPrices :
         LET l == [Val(live) EXCEPT !.ticks = @ + 1]
         IN  live' = Some(IF l.positions = 0 \/ ltp = 0 THEN l
                          ELSE [l EXCEPT !.tick = [pc |-> "read", ltp |-> ltp, ref |-> l.positions,
                                                   old_last_price |-> 0]])
    /\ UNCHANGED outside_live

\* position.last_price = ltp (position_tracker.py 215-216)
TickWritePrice ==
    /\ live # None
    /\ Val(live).tick.pc = "read"
    /\ LET l == Val(live)
           k == l.tick
       IN  live' = Some([l EXCEPT !.records[k.ref].last_price = k.ltp,
                                  !.tick.old_last_price = l.records[k.ref].last_price,
                                  !.tick.pc = "priced"])
    /\ UNCHANGED outside_live

\* the unrealized P&L of a position that is not flat (position_tracker.py
\* 219-221); the callbacks change nothing of the tracker
TickWritePnl ==
    /\ live # None
    /\ Val(live).tick.pc = "priced"
    /\ LET l == Val(live)
           k == l.tick
           position == l.records[k.ref]
           price_diff == position.last_price - average_price
           pnl == IF position.quantity # 0 THEN price_diff * position.quantity * multiplier
                  ELSE position.unrealized_pnl
       IN  live' = Some([l EXCEPT !.records[k.ref].unrealized_pnl = pnl,
                                  !.tick = IdleTick,
                                  !.last_tick = Some(k.ltp)])
    /\ UNCHANGED outside_live

LiveNext ==
    \/ StartMonitoring
    \/ StopMonitoring
    \/ \E t \in DOMAIN Val(live).threads : ThreadTest(t)
    \/ \E t \in DOMAIN Val(live).threads : ThreadFetch(t)
    \/ \E t \in DOMAIN Val(live).threads : ThreadWake(t)
    \/ TickRead
    \/ TickWritePrice
    \/ TickWritePnl
SpecLive == LiveInit /\ [][LiveNext]_vars

(***************************************************************************)
(* Properties.                                                             *)
(***************************************************************************)
\* slot c takes a call of operation op in this step
Called(c, op) == CanBegin(c) /\ ncalls' > ncalls /\ calls'[c].op = op

\* the call of operation op in slot c ends in this step with `result`
Ended(c, op, result) ==
    /\ Called(c, op) \/ (InFlight(c) /\ calls[c].op = op)
    /\ calls'[c].pc = "done"
    /\ calls'[c].result = result

\* the ids the Signal objects carry
SignalIds == {SignalTable[s].id : s \in SignalObjs}

\* the orders the broker accepted for signal id `id`
OrdersOf(xo, id) == {o \in DOMAIN xo : xo[o].origin = id}

\* C1: over sequential process_signal calls, a signal id is consumed at most
\* once: the broker accepts at most one order per signal id; an order for a
\* signal id appears only in the step in which a process_signal call for that
\* id returns true, and a call returns true only by placing the first order of
\* its id; once an order of the id is placed (a call has returned true), every
\* later call with that id returns false at once and places no order.
C1_ConsumedAtMostOnce ==
    [][/\ \A id \in SignalIds : Cardinality(OrdersOf(exchange_orders', id)) <= 1
       /\ \A id \in SignalIds :
            OrdersOf(exchange_orders', id) # OrdersOf(exchange_orders, id)
            => (Ended(1, "process_signal", "true") /\ SignalTable[calls'[1].sig].id = id)
       /\ Ended(1, "process_signal", "true")
          => (/\ OrdersOf(exchange_orders, SignalTable[calls'[1].sig].id) = {}
              /\ Cardinality(OrdersOf(exchange_orders', SignalTable[calls'[1].sig].id)) = 1)
       /\ (/\ Called(1, "process_signal")
           /\ OrdersOf(exchange_orders, SignalTable[calls'[1].sig].id) # {})
          => (/\ calls'[1].pc = "done"
              /\ calls'[1].result = "false"
              /\ exchange_orders' = exchange_orders)
      ]_vars

\* the second Signal object with id "a" was rejected on a running engine with
\* room for orders, after the order of the first had been placed and had left
\* active_orders
C1_Witness ==
    /\ calls[1].op = "process_signal"
    /\ calls[1].pc = "done"
    /\ calls[1].result = "false"
    /\ calls[1].sig = 2
    /\ running
    /\ sig_status[2] = "active"
    /\ "a" \in processed_signals
    /\ OrdersOf(exchange_orders, "a") # {}
    /\ active_orders = {}

\* C2: when process_signal calls for the same signal overlap on the event
\* loop, the broker still accepts at most one order for the signal id and
\* signal_order_map holds at most one order id for it.
C2_NoRacingPlacements ==
    \A id \in SignalIds :
      /\ Cardinality(OrdersOf(exchange_orders, id)) <= 1
      /\ id \in DOMAIN signal_order_map => Len(signal_order_map[id]) <= 1

\* C3: a process_signal call made while active_orders holds
\* max_concurrent_orders entries or more returns false at once: it suspends in
\* no broker call, and the broker receives no order and hands out no position.
C3_CeilingRejects ==
    [][\A c \in Callers :
         (Called(c, "process_signal") /\ Cardinality(active_orders) >= max_concurrent_orders)
         => (/\ calls'[c].pc = "done"
             /\ calls'[c].result = "false"
             /\ exchange_orders' = exchange_orders
             /\ heap' = heap)
      ]_vars

\* the third call of the run, of a fresh active signal on a running engine,
\* returned false with active_orders at the ceiling
C3_Witness ==
    /\ calls[1].op = "process_signal"
    /\ calls[1].pc = "done"
    /\ calls[1].result = "false"
    /\ calls[1].sig = 3
    /\ ncalls = 3
    /\ running
    /\ sig_status[3] = "active"
    /\ "b" \notin processed_signals
    /\ Cardinality(active_orders) = max_concurrent_orders

\* C4: a process_signal call made while the engine is not running, or with a
\* signal that is not active (its status is not ACTIVE, or its expiration has
\* passed), or with an id in processed_signals, or with active_orders at the
\* ceiling, returns false and leaves active_orders, active_positions,
\* signal_order_map, processed_signals and the statistics counters unchanged.
C4_RejectionNoEffect ==
    [][\A c \in Callers :
         (/\ Called(c, "process_signal")
          /\ \/ ~running
             \/ sig_status[calls'[c].sig] # "active"
             \/ sig_status'[calls'[c].sig] = "expired"
             \/ SignalTable[calls'[c].sig].id \in processed_signals
             \/ Cardinality(active_orders) >= max_concurrent_orders)
         => (/\ calls'[c].pc = "done"
             /\ calls'[c].result = "false"
             /\ UNCHANGED <<active_orders, active_positions, signal_order_map,
                            processed_signals, stats>>)
      ]_vars

\* a signal whose expiration had passed was rejected by a running engine
C4_Witness ==
    /\ calls[1].op = "process_signal"
    /\ calls[1].pc = "done"
    /\ calls[1].result = "false"
    /\ calls[1].sig = 1
    /\ sig_status[1] = "expired"
    /\ running

\* the process_signal call in slot c, which passed the four rejections, ends
\* in this step with false
Refused(c) ==
    /\ Ended(c, "process_signal", "false")
    /\ \/ InFlight(c)
       \/ /\ running
          /\ sig_status'[calls'[c].sig] = "active"
          /\ SignalTable[calls'[c].sig].id \notin processed_signals
          /\ Cardinality(active_orders) < max_concurrent_orders

\* C5: a process_signal call that refuses its signal for a validation reason
\* or because place_order reported failure returns false having added no
\* order to active_orders and no position to active_positions, with
\* signal_order_map and processed_signals unchanged and the signal still
\* ACTIVE.
C5_RefusalNoPartialEffect ==
    [][Refused(1)
       => (/\ UNCHANGED <<active_orders, signal_order_map, processed_signals>>
           /\ sig_status'[calls'[1].sig] = "active"
           /\ IF InFlight(1) /\ calls[1].fetched
              THEN IsNone(PosLookup(active_positions',
                                    Val(SignalTable[calls[1].sig].position_id)))
              ELSE active_positions' = active_positions)
      ]_vars

\* C6: no public operation lets an exception of a broker call reach its
\* caller: no call ends by raising.
C6_NoExceptionEscapes ==
    \A c \in Callers : calls[c].result # "raised"

\* C7: a start() whose connect() returns false returns false and leaves the
\* engine not running with no reconciliation task created; a start() on a
\* running engine returns true at once, without awaiting connect() and without
\* creating a task.
C7_StartFailFastIdempotent ==
    [][/\ (calls[1].pc = "connect" /\ Ended(1, "start", "false"))
          => (/\ ~running'
              /\ tasks' = tasks
              /\ order_status_task' = order_status_task)
       /\ (Called(1, "start") /\ running)
          => (/\ calls'[1].pc = "done"
              /\ calls'[1].result = "true"
              /\ running'
              /\ tasks' = tasks
              /\ order_status_task' = order_status_task)
      ]_vars

\* the third call of a run in which a signal was executed is a start() that
\* returned true with still one task: it was made on the running engine
C7_Witness ==
    /\ calls[1].op = "start"
    /\ calls[1].pc = "done"
    /\ calls[1].result = "true"
    /\ ncalls = 3
    /\ processed_signals # {}
    /\ running
    /\ Len(tasks) = 1

\* C8: once stop() has passed the await of the cancelled task, and after it
\* has returned, every reconciliation task has ended; while every task has
\* ended, a step that is not a step of a public operation changes neither the
\* tasks (none is back at a broker call) nor active_orders, active_positions,
\* the orders, the positions or the statistics; a stop() on an engine that is
\* not running returns true at once and changes nothing of the engine.
C8_StopEndsLoop ==
    [][/\ (calls'[1].op = "stop" /\ calls'[1].pc \in {"disconnect", "done"})
          => \A t \in DOMAIN tasks' : tasks'[t].pc = "done"
       /\ ((\A t \in DOMAIN tasks : tasks[t].pc = "done") /\ calls' = calls /\ ncalls' = ncalls)
          => UNCHANGED <<tasks, active_orders, active_positions, orders, heap, stats>>
       /\ (Called(1, "stop") /\ ~running)
          => (/\ calls'[1].pc = "done"
              /\ calls'[1].result = "true"
              /\ UNCHANGED <<running, order_status_task, active_orders, orders,
                             active_positions, heap, signal_order_map, processed_signals,
                             stats, sig_status, tasks, exchange_orders>>)
      ]_vars

\* stop() returned true on an engine whose task had an order to reconcile:
\* the task has ended and the order is still in active_orders
C8_Witness ==
    /\ calls[1].op = "stop"
    /\ calls[1].pc = "done"
    /\ calls[1].result = "true"
    /\ ~running
    /\ Len(tasks) = 1
    /\ tasks[1].pc = "done"
    /\ active_orders # {}

\* C9: emergency_close_all_positions() on a running engine goes through the
\* positions that are in active_positions when it is called, in order; each
\* attempt is a market order of the side opposite to the position's and of
\* the position's whole quantity; whatever becomes of the placement for one
\* position, the next position is attempted.
C9_BestEffortClose ==
    [][/\ (Called(1, "emergency_close_all_positions") /\ running)
          => LET refs == [i \in DOMAIN active_positions |-> active_positions[i].ref]
             IN  IF refs = <<>> THEN calls'[1].pc = "done" /\ calls'[1].result = "true"
                 ELSE calls'[1].pc = "close_place_order" /\ calls'[1].todo = refs
       /\ calls'[1].pc = "close_place_order"
          => LET p == heap'[calls'[1].todo[1]]
                 o == Val(calls'[1].order)
             IN  /\ o.order_type = "market"
                 /\ o.side = (IF p.side = "long" THEN "sell" ELSE "buy")
                 /\ o.quantity = p.quantity
       /\ (calls[1].pc = "close_place_order" /\ calls'[1] # calls[1])
          => IF Len(calls[1].todo) > 1
             THEN calls'[1].pc = "close_place_order" /\ calls'[1].todo = Tail(calls[1].todo)
             ELSE calls'[1].pc = "done"
      ]_vars

\* C10: Position.close with a quantity greater than the position holds is
\* rejected with an error (ValueError) and leaves the position as it was:
\* quantity, realized_pnl, status, close_time and every other field.
C10_CloseTooMuchRejected ==
    (/\ pos_call # None
     /\ Val(pos_call).op = "close"
     /\ Val(pos_call).quantity # None
     /\ Val(Val(pos_call).quantity) > Val(pos_call).before.quantity)
    => (/\ Val(pos_call).raised = "ValueError"
        /\ pos = Val(pos_call).before)

\* a partially closed position was asked to close more than it still holds
C10_Witness ==
    /\ pos_call # None
    /\ Val(pos_call).op = "close"
    /\ Val(pos_call).quantity # None
    /\ Val(Val(pos_call).quantity) > Val(pos_call).before.quantity
    /\ Val(pos_call).before.status = "partially_closed"
    /\ Val(pos_call).raised = "ValueError"

\* the last operation applied to the position is a close that was accepted
CloseAccepted ==
    /\ pos_call # None
    /\ Val(pos_call).op = "close"
    /\ Val(pos_call).raised = "none"

\* the quantity the last close was asked to close: its argument, or all the
\* position held
ClosedQuantity ==
    IF Val(pos_call).quantity = None THEN Val(pos_call).before.quantity
    ELSE Val(Val(pos_call).quantity)

\* C11: an accepted Position.close adds (exit - entry) x closed quantity
\* (entry - exit for a short) to realized_pnl and lowers quantity by the
\* closed quantity; closing all the position holds sets status CLOSED and
\* stamps close_time; closing a positive quantity smaller than that sets
\* status PARTIALLY_CLOSED and leaves close_time as it was (unset for a
\* position that was never closed).
C11_CloseAccounting ==
    CloseAccepted =>
      LET before == Val(pos_call).before
          exit == Val(Val(pos_call).exit_price)
          q == ClosedQuantity
      IN  /\ pos.realized_pnl = before.realized_pnl
                                + (IF before.side = "long" THEN (exit - before.entry_price) * q
                                   ELSE (before.entry_price - exit) * q)
          /\ Val(pos_call).pnl = pos.realized_pnl - before.realized_pnl
          /\ pos.quantity = before.quantity - q
          /\ q = before.quantity => (pos.status = "closed" /\ pos.close_time # None)
          /\ (0 < q /\ q < before.quantity)
             => (/\ pos.status = "partially_closed"
                 /\ pos.close_time = before.close_time
                 /\ before.status = "open" => pos.close_time = None)

\* a short position that was partially closed at a loss is closed for the
\* rest at a profit
C11_Witness ==
    /\ CloseAccepted
    /\ Val(pos_call).before.side = "short"
    /\ Val(pos_call).before.status = "partially_closed"
    /\ Val(pos_call).before.realized_pnl < 0
    /\ Val(pos_call).pnl > 0
    /\ pos.status = "closed"
    /\ pos.quantity = 0

\* C12: in every state that create_position, update_price and close reach,
\* unrealized_pnl is (current_price - entry_price) x quantity for a long
\* position and (entry_price - current_price) x quantity for a short one, with
\* quantity the remaining quantity.
C12_UnrealizedPnlInvariant ==
    pos.unrealized_pnl = (IF pos.side = "long"
                          THEN (pos.current_price - pos.entry_price) * pos.quantity
                          ELSE (pos.entry_price - pos.current_price) * pos.quantity)

\* C13: over any sequence of operations on a position, its quantity is never
\* negative and never increases, and a position whose status is CLOSED stays
\* CLOSED.
C13_QuantityMonotoneClosedFinal ==
    [][/\ pos'.quantity >= 0
       /\ pos'.quantity <= pos.quantity
       /\ pos.status = "closed" => pos'.status = "closed"
      ]_vars

\* the last update_status call reported a positive fill
PositiveFill ==
    /\ ord_call # None
    /\ Val(ord_call).filled_qty # None
    /\ Val(Val(ord_call).filled_qty) > 0

\* C14: after any sequence of update_status calls whose fills all carry a
\* price, filled_quantity is the sum of the reported filled_qty and
\* average_fill_price x filled_quantity is the sum of filled_qty x fill_price
\* over the fills (the average is their quantity-weighted mean).
C14_WeightedMeanFill ==
    (ord_sum # None /\ ~ord_sum.unpriced)
    => (/\ ord.filled_quantity = ord_sum.qty
        /\ ord_sum.qty > 0
           => (/\ ord.average_fill_price # None
               /\ Val(ord.average_fill_price).num * ord_sum.qty
                  = ord_sum.notional * Val(ord.average_fill_price).den))

\* three priced fills at two prices, whose mean is not a whole number
C14_Witness ==
    /\ ord_sum # None
    /\ ~ord_sum.unpriced
    /\ ord_ops = 3
    /\ ord.filled_quantity = 4
    /\ ord_sum.notional = 402
    /\ Val(ord.average_fill_price).num % Val(ord.average_fill_price).den # 0

\* C15: after an update_status call that reports a positive fill, the status
\* is FILLED if and only if filled_quantity >= quantity and PARTIALLY_FILLED
\* otherwise, and remaining_quantity is max(0, quantity - filled_quantity).
C15_FillDerivesStatus ==
    PositiveFill
    => (/\ ord.status = "filled" <=> ord.filled_quantity >= ord.quantity
        /\ ord.status # "filled" => ord.status = "partially_filled"
        /\ ord.remaining_quantity
           = Some(IF ord.quantity - ord.filled_quantity > 0
                  THEN ord.quantity - ord.filled_quantity ELSE 0))

\* a call that reported CANCELLED together with the fill that completes the
\* order exactly: the order is FILLED with nothing remaining
C15_Witness ==
    /\ PositiveFill
    /\ Val(ord_call).new_status = "cancelled"
    /\ ord.filled_quantity = ord.quantity
    /\ ord.status = "filled"
    /\ ord.remaining_quantity = Some(0)

IsActiveCalled == sgn # None /\ Val(sgn).call # None /\ Val(Val(sgn).call).op = "is_active"

\* C17: Signal.is_active() returns true only for an ACTIVE signal whose
\* expiration, if it has one, has not passed; on an ACTIVE signal whose
\* expiration has passed it sets the status to EXPIRED and returns false; and
\* once it has done so, every later is_active call returns false.
C17_IsActiveExpires ==
    IsActiveCalled
    => LET st == Val(sgn)
           c == Val(st.call)
           passed == c.before.expiration # None /\ c.now > Val(c.before.expiration)
       IN  /\ c.result => (c.before.status = "active" /\ ~passed)
           /\ (c.before.status = "active" /\ passed)
              => (st.signal.status = "expired" /\ ~c.result)
           /\ st.expired_by # None => ~c.result

\* is_active expired the signal on an earlier call and the last call, a later
\* one, returned false
C17_Witness ==
    /\ IsActiveCalled
    /\ Val(sgn).expired_by # None
    /\ Val(Val(sgn).expired_by) < Val(sgn).ops
    /\ Val(Val(sgn).call).before.status = "expired"
    /\ Val(sgn).signal.status = "expired"
    /\ ~Val(Val(sgn).call).result

\* calculate_position_size has returned
Sized == risk # None /\ Val(risk).result # None

\* C18: calculate_position_size returns 0 whenever entry_price equals
\* stop_loss, for every balance, instrument and risk percentage; and for
\* balance 100000, entry 100, stop 98, 1% risk (requested or by default),
\* lot_size 1 and contract_size 1 it returns 500.
C18_ZeroRiskZeroSize ==
    Sized
    => LET a == Val(risk).args
           size == Val(Val(risk).result)
       IN  /\ a.entry_price = a.stop_loss => size = 0
           /\ (/\ a.account_balance = 100000
               /\ a.entry_price = 100
               /\ a.stop_loss = 98
               /\ a.risk_percentage \in {None, Some(1)}
               /\ a.lot_size = 1
               /\ a.contract_size = 1
               /\ a.take_profit = None)
              => size = 500

\* the worked example: 1% of 100000 over a per-unit risk of 2 gives 500
C18_Witness ==
    /\ Sized
    /\ Val(risk).args = [account_balance |-> 100000, entry_price |-> 100,
                         stop_loss |-> 98, lot_size |-> 1, contract_size |-> 1,
                         risk_percentage |-> Some(1), take_profit |-> None]
    /\ Val(risk).result = Some(500)

\* C19: whenever the per-unit risk is non-zero, calculate_position_size uses
\* the risk percentage min(requested or default, max_risk_percentage) and
\* returns a whole multiple of instrument.lot_size, at least one lot, which is
\* the nearest lot multiple of risk_amount / per_unit_risk / contract_size
\* when that quotient is one lot or more.  raw is that quotient, as the
\* fraction raw_num / raw_den.
C19_SizeIsNearestLotMultiple ==
    (Sized /\ Val(risk).args.entry_price # Val(risk).args.stop_loss)
    => LET a == Val(risk).args
           size == Val(Val(risk).result)
           per_unit_risk == Abs(a.entry_price - a.stop_loss)
           requested == IF a.risk_percentage = None THEN DefaultRiskPctNum
                        ELSE Val(a.risk_percentage)
           pct == IF requested < MaxRiskPctNum THEN requested ELSE MaxRiskPctNum
           reward == IF a.take_profit = None THEN 0
                     ELSE Abs(Val(a.take_profit) - a.entry_price)
           shrink == a.take_profit # None
                     /\ MinRiskRewardDen * reward < MinRiskRewardNum * per_unit_risk
           raw_num == IF shrink
                      THEN a.account_balance * pct * MinRiskRewardDen * reward
                      ELSE a.account_balance * pct
           raw_den == IF shrink
                      THEN RiskPctDen * MinRiskRewardNum * per_unit_risk
                           * per_unit_risk * a.contract_size
                      ELSE RiskPctDen * per_unit_risk * a.contract_size
       IN  /\ size % a.lot_size = 0
           /\ size >= a.lot_size
           /\ raw_num >= a.lot_size * raw_den
              => 2 * Abs(size * raw_den - raw_num) <= a.lot_size * raw_den

\* a request of 10% is capped at 5%: 5% of 1000 over a per-unit risk of 2 and a
\* contract size of 2 is 12.5, and the nearest multiple of the lot size 5 is 10
C19_Witness ==
    /\ Sized
    /\ Val(risk).args = [account_balance |-> 1000, entry_price |-> 100,
                         stop_loss |-> 98, lot_size |-> 5, contract_size |-> 2,
                         risk_percentage |-> Some(10), take_profit |-> None]
    /\ Val(risk).result = Some(10)

\* run() has returned results for a series whose Close never moved
FlatRunDone ==
    /\ bt # None
    /\ Val(bt).results # None
    /\ \A i \in 1 .. Len(Val(bt).closes) : Val(bt).closes[i] = Val(bt).closes[1]

\* C20: a backtest run over N bars of a flat price series (every Close equal)
\* reports total_return_pct = 0 and max_drawdown_pct = 0, for a strategy that
\* trades as well as for one that places no order.
C20_FlatSeriesZeroMetrics ==
    FlatRunDone
    => (/\ Val(Val(bt).results).total_return_pct = Num(Whole(0))
        /\ Val(Val(bt).results).max_drawdown_pct = Num(Whole(0)))

\* update_position has been applied to the tracker at least once
TrkUpdated == trk # None /\ Len(Val(trk).orders) > 0

\* C21: in the backtest position tracker a BUY or SELL that reduces or flips
\* a position adds to realized_pnl exactly (price - average_price) x closed
\* quantity for a closed long portion and (average_price - price) x closed
\* quantity for a closed short portion, the closed quantity being
\* min(|current quantity|, order quantity); an order that adds to a position
\* makes the average price the quantity-weighted mean and leaves realized_pnl
\* unchanged; and buying 1 at 100 then selling 1 at 110 yields realized_pnl
\* 10 and quantity 0.
C21_TrackerRealizedPnl ==
    TrkUpdated
    => LET st == Val(trk)
           order == st.orders[Len(st.orders)]
           after == Val(st.position)
           held == IF st.before = None THEN 0 ELSE Val(st.before).quantity
           average == IF st.before = None THEN Whole(0) ELSE Val(st.before).average_price
           realized == IF st.before = None THEN Whole(0) ELSE Val(st.before).realized_pnl
           closed == IF Abs(held) < order.quantity THEN Abs(held) ELSE order.quantity
           gain == FracSub(after.realized_pnl, realized)
       IN  /\ (held > 0 /\ order.transaction_type = "SELL")
              => gain.num * average.den
                 = (order.price * average.den - average.num) * closed * gain.den
           /\ (held < 0 /\ order.transaction_type = "BUY")
              => gain.num * average.den
                 = (average.num - order.price * average.den) * closed * gain.den
           /\ (\/ held > 0 /\ order.transaction_type = "BUY"
               \/ held < 0 /\ order.transaction_type = "SELL")
              => /\ gain.num = 0
                 /\ Abs(after.quantity) = Abs(held) + order.quantity
                 /\ after.average_price.num * average.den * Abs(after.quantity)
                    = (Abs(held) * average.num
                       + order.quantity * order.price * average.den)
                      * after.average_price.den
           /\ st.orders = << [transaction_type |-> "BUY", quantity |-> 1, price |-> 100],
                             [transaction_type |-> "SELL", quantity |-> 1, price |-> 110] >>
              => (after.realized_pnl = Whole(10) /\ after.quantity = 0)

\* a short of 1 opened at 110 and raised by 1 at 100 (average 105) is covered
\* in full by a BUY of 2 at 100, a gain of 5 on each unit
C21_Witness ==
    /\ TrkUpdated
    /\ Val(trk).before # None
    /\ Val(Val(trk).before).quantity = 0 - 2
    /\ Val(Val(trk).before).average_price = Whole(105)
    /\ Val(trk).orders[Len(Val(trk).orders)].transaction_type = "BUY"
    /\ Val(trk).orders[Len(Val(trk).orders)].price = 100
    /\ Val(Val(trk).position).realized_pnl = Whole(10)
    /\ Val(Val(trk).position).quantity = 0

\* the last call on the engine being loaded was a load_price_data that failed
LoadFailed ==
    /\ ld # None
    /\ Val(ld).call # None
    /\ Val(Val(ld).call).op = "load_price_data"
    /\ Val(Val(ld).call).kind # "good"

\* C22: a load_price_data call that fails (unreadable file, missing required
\* column, unparseable Date) returns false and leaves the engine's state as it
\* was: no instrument is registered and no price data is stored or replaced;
\* and run() on an engine on which no load has succeeded returns no result.
C22_FailedLoadNoEffect ==
    /\ LoadFailed
       => (/\ ~Val(Val(ld).call).returned
           /\ Val(ld).engine = Val(Val(ld).before))
    /\ (ld # None /\ Val(ld).call # None /\ Val(Val(ld).call).op = "run" /\ ~Val(ld).loaded)
       => Val(Val(ld).call).none

\* C23: for every Position record is_long holds exactly when quantity > 0,
\* is_short exactly when quantity < 0 (never both, neither when quantity is
\* 0), and total_pnl equals realized_pnl + unrealized_pnl.
C23_RecordProperties ==
    (rec # None /\ Val(rec).read # None)
    => LET p == Val(rec).position
           r == Val(Val(rec).read)
       IN  /\ r.is_long <=> p.quantity > 0
           /\ r.is_short <=> p.quantity < 0
           /\ ~(r.is_long /\ r.is_short)
           /\ p.quantity = 0 => (~r.is_long /\ ~r.is_short)
           /\ r.total_pnl = p.realized_pnl + p.unrealized_pnl

\* a flat record with a realized gain and an unrealized loss: neither long nor
\* short, total_pnl the sum
C23_Witness ==
    /\ rec # None
    /\ Val(rec).read # None
    /\ Val(rec).position = [quantity |-> 0, realized_pnl |-> 2, unrealized_pnl |-> 0 - 1]
    /\ Val(Val(rec).read) = [is_long |-> FALSE, is_short |-> FALSE, total_pnl |-> 1]

\* task t sleeps after a pass that ran to its end, and no other task is alive
PassCompleted(t) ==
    /\ tasks[t].pc = "sleep"
    /\ tasks[t].last_pass = "completed"
    /\ \A u \in DOMAIN tasks : u # t => tasks[u].pc = "done"

\* C24: after every completed reconciliation pass, and after any sequence of
\* fills, cancellations and rejections, no order whose local status is
\* terminal (FILLED, CANCELLED, REJECTED, EXPIRED, ERROR) remains in
\* active_orders.
C24_TerminalOrdersEvicted ==
    \A t \in DOMAIN tasks :
       PassCompleted(t) => \A oid \in active_orders : OrderIsActive(orders[oid])

\* the reconciliation task of the running engine is alive and not cancelled,
\* and order b is in active_orders with an active local status
Watched(b) ==
    /\ running
    /\ order_status_task # None
    /\ tasks[Val(order_status_task)].pc # "done"
    /\ ~tasks[Val(order_status_task)].must_cancel
    /\ b \in active_orders
    /\ OrderIsActive(orders[b])

\* a reconciliation task is asking the broker for the status of order b
Polled(b) == \E t \in DOMAIN tasks : tasks[t].pc = "poll" /\ tasks[t].cur = b

\* C25: an exception raised while one order is polled or handled does not
\* end the loop, and every other order that is still active is polled at the
\* broker again in a later pass, even when the failing order fails on every
\* pass: an order that stays watched is eventually polled.
C25_OthersStillReconciled ==
    \A b \in 1 .. MaxCalls : [](Watched(b) => <>(Polled(b) \/ ~Watched(b)))

\* the statuses an order can have at the broker
BrokerStatuses == {"accepted", "partially_filled", "filled", "cancelled"}

\* the engine runs with a live reconciliation task, and the broker holds
\* order b at status s
Stable(b, s) ==
    /\ running
    /\ order_status_task # None
    /\ tasks[Val(order_status_task)].pc # "done"
    /\ ~tasks[Val(order_status_task)].must_cancel
    /\ b \in DOMAIN exchange_orders
    /\ exchange_orders[b].status = s

\* the local status of order b is s and, if s is terminal, b has left active_orders
Reconciled(b, s) ==
    /\ b \in DOMAIN orders
    /\ orders[b].status = s
    /\ s \in InactiveStatuses => b \notin active_orders

\* C26: while the engine runs and the broker keeps answering, every order
\* whose broker-reported status stops changing eventually has that status
\* locally, and if the status is terminal the order is eventually removed
\* from active_orders.
C26_EventuallyReconciled ==
    \A b \in 1 .. (MaxCalls - 1) : \A s \in BrokerStatuses :
       <>[]Stable(b, s) => <>[]Reconciled(b, s)

\* the ids of the entry signals
EntryOrigins == {SignalTable[i].id : i \in {j \in SignalObjs : SignalTable[j].signal_type = "entry"}}
\* the loop has seen a fill of order o
FillSeen(o) == orders[o].status \in {"partially_filled", "filled"}
\* the entry orders the loop has seen filled, in part or in whole
FilledEntries == {o \in DOMAIN orders : exchange_orders[o].origin \in EntryOrigins /\ FillSeen(o)}
\* the Positions that record order o as their entry order
PositionsOf(o) ==
    {ref \in DOMAIN heap : \E k \in DOMAIN heap[ref].entry_order_ids : heap[ref].entry_order_ids[k] = o}
\* what the broker has filled of the exit orders of the Position at ref that
\* the loop has seen filled
RECURSIVE ExitFilled(_, _)
ExitFilled(ref, k) ==
    IF k = 0 THEN 0
    ELSE LET o == heap[ref].exit_order_ids[k]
         IN  ExitFilled(ref, k - 1) + (IF FillSeen(o) THEN exchange_orders[o].quantity ELSE 0)

\* C27: fill handling is idempotent.  An entry order seen PARTIALLY_FILLED
\* and then FILLED, or seen filled in any one pass, has created exactly one
\* Position and total_positions has counted it once; an exit order has closed
\* no more of its position than the quantity filled.
C27_FillHandledOnce ==
    /\ \A o \in FilledEntries : Cardinality(PositionsOf(o)) = 1
    /\ stats.total_positions = Cardinality(FilledEntries)
    /\ \A ref \in DOMAIN heap :
          heap[ref].id[1] \in {"X", "Y"}
            => BrokerPosition(heap[ref].id[1], ref).quantity - heap[ref].quantity
                 <= ExitFilled(ref, Len(heap[ref].exit_order_ids))

\* the engine tracks the Position at ref
Tracked(ref) == \E i \in DOMAIN active_positions : active_positions[i].ref = ref
\* the stop and exit orders the Position at ref lists
ProtectiveIds(ref) ==
    {heap[ref].stop_order_ids[k] : k \in DOMAIN heap[ref].stop_order_ids}
      \cup {heap[ref].exit_order_ids[k] : k \in DOMAIN heap[ref].exit_order_ids}
\* order o is in active_orders with an active local status
StillActive(o) == o \in active_orders /\ OrderIsActive(orders[o])
\* a task is inside _cancel_position_orders
Cancelling == \E t \in DOMAIN tasks : tasks[t].pc = "cancel_order"

\* C28: once the loop has seen the fill of an exit order for the whole of a
\* tracked position, the position is no longer in active_positions; and,
\* outside the cancellation itself, no stop or exit order of a position that
\* is no longer tracked is still active.
C28_ClosedPositionUntracked ==
    \A ref \in DOMAIN heap :
       /\ \A k \in DOMAIN heap[ref].exit_order_ids :
             LET o == heap[ref].exit_order_ids[k]
             IN  (orders[o].status = "filled" /\ orders[o].quantity >= heap[ref].quantity)
                   => ~Tracked(ref)
       /\ (~Tracked(ref) /\ ~Cancelling) => \A o \in ProtectiveIds(ref) : ~StillActive(o)

\* the ids of the entry signals that carry a stop_loss
StopLossOrigins ==
    {SignalTable[i].id : i \in {j \in SignalObjs : /\ SignalTable[j].signal_type = "entry"
                                                   /\ SignalTable[j].stop_loss # None}}
\* the broker has filled order o, the entry order of a signal with a stop_loss
EntryFilled(o) ==
    /\ o \in DOMAIN exchange_orders
    /\ exchange_orders[o].origin \in StopLossOrigins
    /\ exchange_orders[o].status = "filled"
\* the engine runs and its reconciliation task is alive and not cancelled
EngineUp ==
    /\ running
    /\ order_status_task # None
    /\ tasks[Val(order_status_task)].pc # "done"
    /\ ~tasks[Val(order_status_task)].must_cancel
\* a tracked Position records order o as its entry order, mirrors its side,
\* has the filled quantity, and lists a stop order
Protected(o) ==
    \E ref \in PositionsOf(o) :
       /\ Tracked(ref)
       /\ heap[ref].side = (IF orders[o].side = "buy" THEN "long" ELSE "short")
       /\ heap[ref].quantity = exchange_orders[o].quantity
       /\ heap[ref].stop_order_ids # <<>>

\* C29: while the engine stays up and the broker answers, the fill of the
\* entry order of a signal that carries a stop_loss eventually results in a
\* tracked Position (side mirroring the order, quantity the filled quantity)
\* with a protective stop order placed for it.
C29_EntryFillProtected ==
    \A o \in 1 .. (MaxCalls - 1) : [](EntryFilled(o) => <>(Protected(o) \/ ~EngineUp))

\* the origins of closing orders: the exit signals and emergency_close_all_positions
ClosingOrigins ==
    {SignalTable[i].id : i \in {j \in SignalObjs : SignalTable[j].signal_type = "exit"}}
      \cup {"emergency"}
\* the closing orders of the Position at ref that are still active
ActiveClosing(ref) ==
    {o \in ProtectiveIds(ref) : exchange_orders[o].origin \in ClosingOrigins /\ StillActive(o)}
\* the sum of the quantities of the orders in S
RECURSIVE QuantitySum(_)
QuantitySum(S) ==
    IF S = {} THEN 0
    ELSE LET o == CHOOSE x \in S : TRUE IN orders[o].quantity + QuantitySum(S \ {o})

\* C30: for every tracked position at most one closing order placed on its
\* behalf (by an exit signal or by emergency_close_all_positions) is active,
\* and the active closing orders never sum to more than the position's
\* remaining quantity.
C30_OneClosingOrder ==
    \A ref \in DOMAIN heap :
       Tracked(ref) => /\ Cardinality(ActiveClosing(ref)) <= 1
                       /\ QuantitySum(ActiveClosing(ref)) <= heap[ref].quantity

\* the loop has seen the fill of an exit order for the whole of the Position at ref
ExitFillSeen(ref) ==
    \E k \in DOMAIN heap[ref].exit_order_ids :
       LET o == heap[ref].exit_order_ids[k]
       IN  /\ orders[o].status = "filled"
           /\ exchange_orders[o].quantity = BrokerPosition(heap[ref].id[1], ref).quantity

\* C31: every entry of active_positions is a position that is not CLOSED and
\* has a positive quantity, and none is a position whose exit order for its
\* whole quantity the loop has seen filled: such a position has left the map
\* in the step that handled the fill, also when _process_exit_signal cached
\* it from the broker under the signal's position id.
C31_TrackedPositionsOpen ==
    \A i \in DOMAIN active_positions :
       LET ref == active_positions[i].ref
       IN  /\ heap[ref].status # "closed"
           /\ heap[ref].quantity > 0
           /\ ~ExitFillSeen(ref)

\* C32: after on_tick_data has handled a tick with price p, with no poll
\* result stored since and no further tick being handled, the record self.positions holds for the instrument
\* has last_price p and unrealized_pnl (p - average_price) x quantity x
\* multiplier: no tick is written to a record the poll has replaced.
C32_LastWriteWins ==
    (live # None /\ Val(live).last_tick # None /\ Val(live).tick.pc = "idle")
      => LET l == Val(live)
             position == l.records[l.positions]
             p == Val(l.last_tick)
         IN  /\ position.last_price = p
             /\ position.unrealized_pnl = (p - average_price) * position.quantity * multiplier

\* the monitoring threads inside fetch_positions
PollingThreads == {t \in DOMAIN Val(live).threads : Val(live).threads[t].pc = "fetch"}

\* C40: for any sequence of start_monitoring and stop_monitoring calls, at
\* most one monitoring thread is polling the broker, and a thread that
\* stop_monitoring told to stop has not gone on to poll again.
C40_OneMonitoringThread ==
    live # None
      => /\ Cardinality(PollingThreads) <= 1
         /\ \A t \in DOMAIN Val(live).threads : ~Val(live).threads[t].resumed

\* the place_order of an entry or exit signal reports failure in this step
PlaceFailed ==
    \E c \in Callers :
       /\ calls[c].pc \in {"entry_place_order", "exit_place_order"}
       /\ calls'[c].pc = "done"
       /\ calls'[c].result = "false"
\* the orders the broker accepts in this step
PlacedNow == Len(exchange_orders') - Len(exchange_orders)
\* the Positions the engine creates in this step
CreatedNow == Cardinality({ref \in DOMAIN heap' \ DOMAIN heap : heap'[ref].id[1] = "NEW"})

\* C33: failed_orders rises by 1 with each place_order failure of entry or
\* exit signal handling and with nothing else; total_orders and
\* successful_orders rise by 1 with each order the broker accepts, whatever
\* places it; total_positions rises by 1 with each Position created;
\* get_statistics changes no engine state; total_orders = successful_orders.
C33_CountersExact ==
    [][/\ stats'.failed_orders = stats.failed_orders + (IF PlaceFailed THEN 1 ELSE 0)
       /\ stats'.total_orders = stats.total_orders + PlacedNow
       /\ stats'.successful_orders = stats.successful_orders + PlacedNow
       /\ stats'.total_positions = stats.total_positions + CreatedNow
       /\ (\E c \in Callers : Called(c, "get_statistics"))
            => UNCHANGED <<running, order_status_task, active_orders, orders, active_positions,
                           heap, signal_order_map, processed_signals, stats, sig_status, tasks,
                           exchange_orders>>
       /\ stats'.total_orders = stats'.successful_orders]_vars

\* a placement of a signal's order has failed, the emergency close has placed
\* an order, and get_statistics has returned
C33_Witness ==
    /\ stats.failed_orders > 0
    /\ stats.total_orders > 0
    /\ \E o \in DOMAIN exchange_orders : exchange_orders[o].origin = "emergency"
    /\ \E c \in Callers : calls[c].op = "get_statistics" /\ calls[c].pc = "done"

\* a reconciliation task begins a get_order_status call for order o in this step
PollBegins(o) ==
    \E t \in DOMAIN tasks' :
       /\ tasks'[t].pc = "poll"
       /\ tasks'[t].cur = o
       /\ ~(t \in DOMAIN tasks /\ tasks[t].pc = "poll" /\ tasks[t].cur = o)

\* C34: once the local status of an order is terminal (FILLED, CANCELLED,
\* REJECTED, EXPIRED, ERROR), no step of the engine changes that status and
\* no reconciliation pass begins a poll of the broker for the order.
C34_TerminalStatusFinal ==
    [][\A o \in DOMAIN orders :
          ~OrderIsActive(orders[o])
            => /\ orders'[o].status = orders[o].status
               /\ ~PollBegins(o)]_vars

\* an order the loop has seen filled is still in active_orders when a later
\* pass has run to its end
C34_Witness ==
    \E o \in active_orders :
       /\ orders[o].status = "filled"
       /\ \E t \in DOMAIN tasks : tasks[t].pc = "sleep" /\ tasks[t].last_pass = "completed"

\* C35: active_orders never holds more than max_concurrent_orders orders,
\* whatever placed them: entry and exit signals, protective orders, or the
\* emergency close.
C35_ActiveOrdersBounded == Cardinality(active_orders) <= max_concurrent_orders

LiveTasks == {t \in DOMAIN tasks : tasks[t].pc # "done"}

\* C37: at any time at most one reconciliation task exists, for any
\* interleaving of start() and stop() calls, overlapping ones included.
C37_OneLoopTask == Cardinality(LiveTasks) <= 1

\* no start() or stop() call is suspended
StartStopReturned == \A c \in Callers : ~(InFlight(c) /\ calls[c].op \in {"start", "stop"})
\* the reconciliation task the engine refers to has not ended
LoopAlive == order_status_task # None /\ tasks[Val(order_status_task)].pc # "done"

\* C38: in every state in which start() and stop() have returned, running is
\* true if and only if the reconciliation loop is alive; the engine never
\* accepts signals with its loop cancelled, also when disconnect() in stop()
\* reports failure.
C38_RunningIffLoopAlive == StartStopReturned => (running <=> LoopAlive)

\* the orders applied so far: bought minus sold quantity
RECURSIVE NetQuantity(_)
NetQuantity(applied) ==
    IF applied = <<>> THEN 0
    ELSE LET order == applied[Len(applied)]
         IN  NetQuantity(SubSeq(applied, 1, Len(applied) - 1))
               + (IF order.transaction_type = "BUY" THEN order.quantity
                  ELSE 0 - order.quantity)

\* the orders applied so far: cash received from sells minus cash paid for buys
RECURSIVE NetCash(_)
NetCash(applied) ==
    IF applied = <<>> THEN 0
    ELSE LET order == applied[Len(applied)]
         IN  NetCash(SubSeq(applied, 1, Len(applied) - 1))
               + (IF order.transaction_type = "SELL" THEN order.quantity * order.price
                  ELSE 0 - order.quantity * order.price)

\* C39: after any sequence of BUY and SELL updates for one instrument in the
\* backtest position tracker, the position's signed quantity is the sum of
\* the bought quantities minus the sum of the sold quantities, its
\* average_price is 0 exactly when the quantity is 0, and realized_pnl +
\* unrealized_pnl at the last trade price equals the cash received from sells
\* minus the cash paid for buys plus quantity x last price.
C39_TrackerAccounting ==
    TrkUpdated
    => LET st == Val(trk)
           after == Val(st.position)
           last == st.orders[Len(st.orders)]
           total == FracAdd(after.realized_pnl, after.unrealized_pnl)
       IN  /\ after.quantity = NetQuantity(st.orders)
           /\ (after.average_price.num = 0) <=> (after.quantity = 0)
           /\ after.last_price = last.price
           /\ total.num
              = (NetCash(st.orders) + after.quantity * last.price) * total.den

\* three orders whose last one turns a long position bought at a mixed
\* average into a short one
C39_Witness ==
    /\ TrkUpdated
    /\ Len(Val(trk).orders) = MaxTrackerOps
    /\ Val(trk).before # None
    /\ Val(Val(trk).before).quantity > 0
    /\ Val(Val(trk).position).quantity < 0
    /\ Val(Val(trk).position).realized_pnl.num # 0

====
